---- MODULE Spec2Model ----
(***************************************************************************)
(* Resource coordinator (resource_coordinator_rust): the ResourceAllocator *)
(* of allocator.rs as a state machine.  Caller tasks run allocate, release *)
(* and get_usage_stats concurrently; every tokio::sync::Mutex of the       *)
(* allocator is a lock with a holder, every .lock().await is a step that   *)
(* waits for the lock to be free, and the tasks that allocate_gpu and      *)
(* allocate_api_quota spawn are processes of their own.                    *)
(***************************************************************************)
EXTENDS Integers, Sequences, FiniteSets, Bags, TLC

(***************************************************************************)
(* Bounds of the model.                                                    *)
(***************************************************************************)
MaxActive == 2
MaxSpawned == 2
MaxTicks == 1

(***************************************************************************)
(* Program constants.                                                      *)
(***************************************************************************)
CpuCapacity == 4
MemoryPoolMb == 8192
GpuPermits == 1
ApiPermits == 100
ApiHoldSecs == 3600

(***************************************************************************)
(* Unsigned machine integers.  A u32 or u64 is a little-endian sequence of *)
(* 16-bit limbs (2 limbs for u32, 4 for u64), so that additions carry and  *)
(* wrap exactly as the machine's do.                                       *)
(***************************************************************************)
LimbBase == 2^16

U32(n) == [i \in 1..2 |-> IF i = 1 THEN n % LimbBase ELSE (n \div LimbBase) % LimbBase]

\* mb * 1024 * 1024 as a u64, for mb below 2^27: (mb * 16) * 2^16
BytesOfMb(mb) ==
    [i \in 1..4 |-> IF i = 2 THEN (mb * 16) % LimbBase
                    ELSE IF i = 3 THEN ((mb * 16) \div LimbBase) % LimbBase
                    ELSE 0]

U32Max == [i \in 1..2 |-> LimbBase - 1]

Zero(len) == [i \in 1..len |-> 0]

\* carry out of limb i when a and b are added (0 or 1)
RECURSIVE Carry(_, _, _)
Carry(a, b, i) ==
    IF i = 0 THEN 0
    ELSE (a[i] + b[i] + Carry(a, b, i - 1)) \div LimbBase

\* a + b, wrapped to the width of a (u32: `+` in a build without overflow checks)
WrappingAdd(a, b) ==
    [i \in 1..Len(a) |-> (a[i] + b[i] + Carry(a, b, i - 1)) % LimbBase]

\* whether a + b does not fit the width of a
AddOverflows(a, b) == Carry(a, b, Len(a)) = 1

\* a < b, compared from the most significant limb down to limb i
RECURSIVE LessFrom(_, _, _)
LessFrom(a, b, i) ==
    IF i = 0 THEN FALSE
    ELSE IF a[i] # b[i] THEN a[i] < b[i]
    ELSE LessFrom(a, b, i - 1)

Less(a, b) == LessFrom(a, b, Len(a))

Leq(a, b) == ~Less(b, a)

\* a HashMap over a fixed set of keys: Absent marks a key with no entry
Absent == <<>>

Keys(table) == {k \in DOMAIN table : table[k] # Absent}

\* a with one more (zero) limb
Widen(a) == [i \in 1..(Len(a) + 1) |-> IF i <= Len(a) THEN a[i] ELSE 0]

\* the mathematical sum of the values of table f (values of len limbs), in
\* len + 1 limbs
RECURSIVE WideSumOver(_, _, _)
WideSumOver(f, keys, len) ==
    IF keys = {} THEN Zero(len + 1)
    ELSE LET k == CHOOSE x \in keys : TRUE
         IN  WrappingAdd(Widen(f[k]), WideSumOver(f, keys \ {k}, len))

WideSum(f, len) == WideSumOver(f, Keys(f), len)

\* Iterator::sum over the values of a table: the sum wrapped to the width,
\* and whether an addition overflowed on the way
WrappedSum(f, len) == SubSeq(WideSum(f, len), 1, len)

SumOverflows(f, len) == WideSum(f, len)[len + 1] # 0

(***************************************************************************)
(* Callers and requests.                                                   *)
(***************************************************************************)
Tasks == {"t1", "t2"}

NoTask == "none"

Components == {"c1", "c2"}

ApiNames == {"claude"}

Durations == {0, 1}

\* ResourceType
Gpu == [kind |-> "Gpu", arg |-> <<>>]

CpuCores(cores) == [kind |-> "CpuCores", arg |-> cores]

Memory(bytes) == [kind |-> "Memory", arg |-> bytes]

ApiQuota(name) == [kind |-> "ApiQuota", arg |-> <<name>>]

Kinds == {"Gpu", "CpuCores", "Memory", "ApiQuota"}

\* the core counts and byte counts callers ask for: small ones, and ones near
\* the top of the integer's range
CpuRequests == {U32(2), U32Max}

MemoryRequests == {BytesOfMb(MemoryPoolMb \div 2),
                   [i \in 1..4 |-> IF i <= 2 THEN 0 ELSE LimbBase - 1]}

ResourceTypes ==
    {Gpu} \cup {CpuCores(c) : c \in CpuRequests}
          \cup {Memory(b) : b \in MemoryRequests}
          \cup {ApiQuota(n) : n \in ApiNames}

\* AllocationRequest (priority is stored nowhere and read nowhere)
Requests == [component_id : Components, resource_type : ResourceTypes,
             duration : Durations]

\* the arguments release reads: the component and the variant of the type
ReleaseArgs == [component_id : Components, kind : Kinds]

\* The workloads explored: the callers that call concurrently, the
\* components they act for and the kinds they ask for.  Each workload has
\* two of one of these and one of the other two: two concurrent callers, or
\* two components, or two kinds; on the exclusive kind, two callers act for
\* two components as well.
Workloads ==
    {[tasks |-> Tasks, components |-> {"c1"}, kinds |-> {k}] : k \in Kinds}
        \cup {[tasks |-> Tasks, components |-> Components, kinds |-> {"Gpu"}]}
        \cup {[tasks |-> {"t1"}, components |-> Components, kinds |-> {k}] :
                 k \in Kinds}
        \cup {[tasks |-> {"t1"}, components |-> {"c1"}, kinds |-> ks] :
                 ks \in {x \in SUBSET Kinds : Cardinality(x) = 2}}

\* the builds explored: overflow checks matter where integers are added
Builds(w) ==
    IF w.kinds \cap {"CpuCores", "Memory"} = {} THEN {FALSE} ELSE BOOLEAN

(***************************************************************************)
(* State.                                                                  *)
(***************************************************************************)
VARIABLES
    workload,            \* the callers and kinds of this run (never changes)
    overflow_checks,     \* the build: TRUE panics on integer overflow, FALSE wraps
    now,                 \* Instant::now(), in seconds
    gpu_semaphore,       \* available permits of gpu_semaphore
    cpu_allocations,     \* component -> cores (Absent: no entry)
    memory_allocations,  \* component -> bytes (Absent: no entry)
    api_limiters,        \* api name -> <<available permits>> (Absent: no entry)
    active_allocations,  \* Vec<Allocation>
    cpu_lock,            \* holder of the cpu_allocations mutex
    memory_lock,         \* holder of the memory_allocations mutex
    active_lock,         \* holder of the active_allocations mutex
    gpu_tasks,           \* bag of the tasks allocate_gpu spawned
    api_tasks,           \* bag of the tasks allocate_api_quota spawned
    pc,                  \* caller task -> the await it is at
    call,                \* caller task -> arguments and locals of its call
    expired,             \* caller task -> `expired` of cleanup_expired_allocations
    last                 \* the call that returned in the last step, if one did

\* RateLimiter (rate_limiter.rs): one token bucket and its callers
VARIABLES
    bucket_capacity,     \* RateLimiter::capacity (never changes)
    bucket_refill_rate,  \* RateLimiter::refill_rate, in half tokens per second
    tokens,              \* *tokens, in half tokens
    last_refill,         \* *last_refill
    bucket_pc,           \* caller task -> the await of acquire it is at
    bucket_call,         \* caller task -> arguments and locals of its acquire
    bucket_last          \* the call that returned in the last step, if one did

\* SlidingWindowLimiter (rate_limiter.rs)
VARIABLES
    window_max_requests, \* SlidingWindowLimiter::max_requests (never changes)
    window_duration,     \* SlidingWindowLimiter::window_duration, in seconds
    requests,            \* VecDeque<Instant>: the recorded requests
    granted,             \* the clock at the last max_requests + 1 successes
    window_last          \* the call that returned in the last step, if one did

\* MultiTierRateLimiter (rate_limiter.rs)
VARIABLES
    tiers,               \* HashMap: tier name -> its RateLimiter
    client_tiers,        \* client id -> tier name (NoTier: no entry)
    default_tier,        \* MultiTierRateLimiter::default_tier
    tier_last            \* the call that returned in the last step, if one did

allocatorVars ==
    <<workload, overflow_checks, gpu_semaphore, cpu_allocations,
      memory_allocations, api_limiters, active_allocations, cpu_lock,
      memory_lock, active_lock, gpu_tasks, api_tasks, pc, call, expired, last>>

bucketVars ==
    <<bucket_capacity, bucket_refill_rate, tokens, last_refill, bucket_pc,
      bucket_call,
      bucket_last>>

windowVars ==
    <<window_max_requests, window_duration, requests, granted, window_last>>

tierVars == <<tiers, client_tiers, default_tier, tier_last>>

\* the event bus: a call of EventRouter::matches_pattern
VARIABLES
    match_topic,         \* the topic argument
    match_pattern,       \* the pattern argument
    match_last           \* the call that returned, with its result

matchVars == <<match_topic, match_pattern, match_last>>

\* the event bus: EventRouter and the route_event calls in progress
VARIABLES
    handlers,            \* EventRouter::handlers: pattern -> Vec of handlers
    channels,            \* EventRouter::channels: pattern -> Vec of senders
    pattern_of,          \* subscriber -> the pattern it was subscribed with
    panicking,           \* the handlers whose closure panics when called
    closed,              \* the senders whose receiver is gone
    inbox,               \* sender -> the events in its channel, oldest first
    received,            \* sender -> the events its receiver has read
    route_pc,            \* where the route_event call in progress is
    route_call,          \* the call in progress: its topic, who was subscribed
    visited,             \* the entries the current loop has come to
    dead_channels,       \* route_event's dead_channels
    delivered,           \* copies the call has handed to each subscriber
    routes_started,      \* the route_event calls so far
    failed_pushes,       \* sender -> the sends to it that failed
    router_last          \* the route_event call that ended in the last step

routerVars ==
    <<handlers, channels, pattern_of, panicking, closed, inbox, received,
      route_pc, route_call, visited, dead_channels, delivered, routes_started,
      failed_pushes, router_last>>

\* the event bus: a request to one of its ingress endpoints
VARIABLES
    ingress_request,     \* the request: its endpoint and its body
    ingress_last         \* the request answered, its response, what was routed

ingressVars == <<ingress_request, ingress_last>>

\* the HTTP server of the resource coordinator, in front of the allocator
VARIABLES
    basic_tokens,        \* the tokens of the "basic" tier of its rate limiter
    server_last          \* the request answered last and its response

serverVars == <<basic_tokens, server_last>>

\* the deterministic RNG of the Balatro emulator
VARIABLES
    rng,                 \* instance -> its PseudorandomState (NoRng: not created)
    rng_log,             \* instance -> the operations run on it and their outputs
    rng_saved,           \* the snapshot taken of an instance and when
    rng_input            \* the arguments of the one call of pseudorandom

rngVars == <<rng, rng_log, rng_saved, rng_input>>

\* the components modelled after the router
restVars == <<ingressVars, serverVars, rngVars>>

\* what the operations of one component leave alone: the other components
notAllocator ==
    <<bucketVars, windowVars, tierVars, matchVars, routerVars, restVars>>

notBucket ==
    <<allocatorVars, windowVars, tierVars, matchVars, routerVars, restVars>>

notWindow ==
    <<allocatorVars, bucketVars, tierVars, matchVars, routerVars, restVars>>

notTiers ==
    <<allocatorVars, bucketVars, windowVars, matchVars, routerVars, restVars>>

notMatch ==
    <<allocatorVars, bucketVars, windowVars, tierVars, routerVars, restVars>>

notRouter ==
    <<allocatorVars, bucketVars, windowVars, tierVars, matchVars, restVars>>

notIngress ==
    <<allocatorVars, bucketVars, windowVars, tierVars, matchVars, routerVars,
      serverVars, rngVars>>

notServer ==
    <<bucketVars, windowVars, tierVars, matchVars, routerVars, ingressVars,
      rngVars>>

notRng ==
    <<allocatorVars, bucketVars, windowVars, tierVars, matchVars, routerVars,
      ingressVars, serverVars>>

vars ==
    <<now, allocatorVars, bucketVars, windowVars, tierVars, matchVars, routerVars,
      restVars>>

Insert(table, k, v) == [table EXCEPT ![k] = v]

Remove(table, k) == [table EXCEPT ![k] = Absent]

MemoryPool == BytesOfMb(MemoryPoolMb)

IdleCall ==
    [op |-> "none", component_id |-> "none", resource_type |-> Gpu,
     duration |-> 0, expires_at |-> 0, sweep_now |-> 0, nested |-> FALSE,
     held |-> FALSE, raced |-> FALSE, gpu_usage |-> 0, used_cores |-> <<>>,
     used_memory |-> <<>>]

NoEvent == [op |-> "none"]

\* the locals of acquire
IdleAcquire == [tokens_needed |-> 0, wake_at |-> 0, disturbed |-> FALSE]

\* the token bucket when no RateLimiter is in use
BucketOff ==
    /\ bucket_capacity = 0
    /\ bucket_refill_rate = 0
    /\ tokens = 0
    /\ last_refill = 0
    /\ bucket_pc = [t \in Tasks |-> "idle"]
    /\ bucket_call = [t \in Tasks |-> IdleAcquire]
    /\ bucket_last = NoEvent

\* the sliding window when no SlidingWindowLimiter is in use
WindowOff ==
    /\ window_max_requests = 0
    /\ window_duration = 0
    /\ requests = <<>>
    /\ granted = <<>>
    /\ window_last = NoEvent

NoTier == "none"

\* the registry when no MultiTierRateLimiter is in use
TiersOff ==
    /\ tiers = <<>>
    /\ client_tiers = <<>>
    /\ default_tier = NoTier
    /\ tier_last = NoEvent

\* no call of matches_pattern
MatchOff ==
    /\ match_topic = <<>>
    /\ match_pattern = <<>>
    /\ match_last = NoEvent

\* no request to the event bus
IngressOff ==
    /\ ingress_request = <<>>
    /\ ingress_last = NoEvent

\* no request to the HTTP server of the coordinator
ServerOff ==
    /\ basic_tokens = 0
    /\ server_last = NoEvent

\* no RNG
RngOff ==
    /\ rng = <<>>
    /\ rng_log = <<>>
    /\ rng_saved = <<>>
    /\ rng_input = <<>>

RestOff == IngressOff /\ ServerOff /\ RngOff

\* no router
RouterOff ==
    /\ handlers = <<>>
    /\ channels = <<>>
    /\ pattern_of = <<>>
    /\ panicking = {}
    /\ closed = {}
    /\ inbox = <<>>
    /\ received = <<>>
    /\ route_pc = "idle"
    /\ route_call = <<>>
    /\ visited = {}
    /\ dead_channels = <<>>
    /\ delivered = <<>>
    /\ routes_started = 0
    /\ failed_pushes = <<>>
    /\ router_last = NoEvent

Init ==
    /\ workload \in Workloads
    /\ overflow_checks \in Builds(workload)
    /\ now = 0
    /\ gpu_semaphore = GpuPermits
    /\ cpu_allocations = [c \in Components |-> Absent]
    /\ memory_allocations = [c \in Components |-> Absent]
    /\ api_limiters = [n \in ApiNames |-> Absent]
    /\ active_allocations = <<>>
    /\ cpu_lock = NoTask
    /\ memory_lock = NoTask
    /\ active_lock = NoTask
    /\ gpu_tasks = EmptyBag
    /\ api_tasks = EmptyBag
    /\ pc = [t \in Tasks |-> "idle"]
    /\ call = [t \in Tasks |-> IdleCall]
    /\ expired = [t \in Tasks |-> <<>>]
    /\ last = NoEvent
    /\ BucketOff
    /\ WindowOff
    /\ TiersOff
    /\ MatchOff
    /\ RouterOff
    /\ RestOff

(***************************************************************************)
(* Pieces of the code that several steps share.                            *)
(***************************************************************************)
\* active.iter().filter(|alloc| alloc.expires_at <= now)
ExpiredAt(active, at) ==
    LET IsExpired(alloc) == alloc.expires_at <= at
    IN  SelectSeq(active, IsExpired)

\* active.retain(|alloc| alloc.expires_at > now)
RetainUnexpired(active, at) ==
    LET Keep(alloc) == alloc.expires_at > at
    IN  SelectSeq(active, Keep)

\* active.retain(|alloc| alloc.component_id != component_id)
RetainOthers(active, component_id) ==
    LET Keep(alloc) == alloc.component_id # component_id
    IN  SelectSeq(active, Keep)

\* Allocation { component_id, resource_type, started_at, expires_at }
\* (started_at is written and never read)
Allocation(c) ==
    [component_id |-> c.component_id, resource_type |-> c.resource_type,
     expires_at |-> c.expires_at]

\* the await a call of allocate goes to after the sweep: the match of allocate
Dispatch(resource_type) ==
    CASE resource_type.kind = "Gpu" -> "allocate_gpu"
      [] resource_type.kind = "CpuCores" -> "allocate_cpu"
      [] resource_type.kind = "Memory" -> "allocate_memory"
      [] resource_type.kind = "ApiQuota" -> "allocate_api_quota"

\* whether component_id has a lease of the kind recorded: units in the kind's
\* table, or an entry of the kind in the active list
Holds(component_id, kind) ==
    \/ kind = "CpuCores" /\ cpu_allocations[component_id] # Absent
    \/ kind = "Memory" /\ memory_allocations[component_id] # Absent
    \/ \E i \in 1..Len(active_allocations) :
          /\ active_allocations[i].component_id = component_id
          /\ active_allocations[i].resource_type.kind = kind

\* a call can be made in slot t of the workload when the slot is idle
FreeSlot(t) == t \in workload.tasks /\ pc[t] = "idle"

\* a call returns `result` to its caller; c is its record
Returns(t, c, result) ==
    /\ pc' = [pc EXCEPT ![t] = "idle"]
    /\ call' = [call EXCEPT ![t] = IdleCall]
    /\ expired' = [expired EXCEPT ![t] = <<>>]
    /\ last' = [op |-> c.op, component_id |-> c.component_id,
                kind |-> c.resource_type.kind, result |-> result,
                held |-> c.held, raced |-> c.raced,
                gpu_usage |-> c.gpu_usage, used_cores |-> c.used_cores,
                used_memory |-> c.used_memory]

\* leases pushed onto the active list or about to be
PendingPushes ==
    Cardinality({u \in Tasks : pc[u] \in {"gpu_track", "cpu_track", "memory_track"}})

\* a release in progress (between its table step and its list step) that an
\* insert for the same component and kind overtakes
MarkRaced(calls, component_id, kind) ==
    [u \in Tasks |->
        IF /\ pc[u] = "release_active"
           /\ calls[u].op = "release"
           /\ calls[u].component_id = component_id
           /\ calls[u].resource_type.kind = kind
        THEN [calls[u] EXCEPT !.raced = TRUE]
        ELSE calls[u]]

(***************************************************************************)
(* allocate: the sweep of expired leases, then the match on the kind.      *)
(***************************************************************************)
\* allocate is called; cleanup_expired_allocations locks the active list,
\* reads the clock and collects the expired leases.  With none expired its
\* loop is empty, its retain removes nothing and the lock is dropped.
Allocate(t, request) ==
    /\ FreeSlot(t)
    /\ request.component_id \in workload.components
    /\ request.resource_type.kind \in workload.kinds
    /\ active_lock = NoTask
    /\ LET c == [IdleCall EXCEPT !.op = "allocate",
                                 !.component_id = request.component_id,
                                 !.resource_type = request.resource_type,
                                 !.duration = request.duration]
           found == ExpiredAt(active_allocations, now)
       IN  IF found = <<>>
           THEN /\ active_allocations' = RetainUnexpired(active_allocations, now)
                /\ pc' = [pc EXCEPT ![t] = Dispatch(request.resource_type)]
                /\ call' = [call EXCEPT ![t] = c]
                /\ UNCHANGED <<active_lock, expired>>
           ELSE /\ pc' = [pc EXCEPT ![t] = "cleanup_release"]
                /\ call' = [call EXCEPT ![t] = [c EXCEPT !.sweep_now = now]]
                /\ active_lock' = t
                /\ expired' = [expired EXCEPT ![t] = found]
                /\ UNCHANGED active_allocations
    /\ last' = NoEvent
    /\ UNCHANGED <<notAllocator, workload, overflow_checks, now, gpu_semaphore, cpu_allocations,
                   memory_allocations, api_limiters, cpu_lock, memory_lock,
                   gpu_tasks, api_tasks>>

\* the match of release: the table of the kind is locked, the component's
\* entry removed and the table unlocked; Gpu and ApiQuota do nothing
ReleasedCpuKeepsEntry(table, component_id, kind) == table

ReleasedCpu(table, component_id, kind) ==
    IF kind = "CpuCores" THEN Remove(table, component_id) ELSE table

ReleasedMemory(table, component_id, kind) ==
    IF kind = "Memory" THEN Remove(table, component_id) ELSE table

\* release is entered, by a caller or by the sweep, and runs up to its
\* lock of the active list
ReleaseEnter(t, component_id, kind, c) ==
    /\ kind = "CpuCores" => cpu_lock = NoTask
    /\ kind = "Memory" => memory_lock = NoTask
    /\ cpu_allocations' = ReleasedCpu(cpu_allocations, component_id, kind)
    /\ memory_allocations' = ReleasedMemory(memory_allocations, component_id, kind)
    /\ pc' = [pc EXCEPT ![t] = "release_active"]
    /\ call' = [call EXCEPT ![t] = c]
    /\ last' = NoEvent
    /\ UNCHANGED <<notAllocator, workload, overflow_checks, now, gpu_semaphore, api_limiters,
                   active_allocations, cpu_lock, memory_lock, active_lock,
                   gpu_tasks, api_tasks, expired>>

\* the loop of cleanup_expired_allocations, holding the lock of the active
\* list: release is called for the next expired lease; after the last one
\* the expired leases are dropped from the list and the lock is released
CleanupRelease(t) ==
    /\ pc[t] = "cleanup_release"
    /\ IF expired[t] # <<>>
       THEN ReleaseEnter(t, Head(expired[t]).component_id,
                         Head(expired[t]).resource_type.kind,
                         [call[t] EXCEPT !.nested = TRUE])
       ELSE /\ active_allocations' =
                   RetainUnexpired(active_allocations, call[t].sweep_now)
            /\ active_lock' = NoTask
            /\ pc' = [pc EXCEPT ![t] = Dispatch(call[t].resource_type)]
            /\ call' = [call EXCEPT ![t].sweep_now = 0]
            /\ last' = NoEvent
            /\ UNCHANGED <<notAllocator, workload, overflow_checks, now, gpu_semaphore, cpu_allocations,
                           memory_allocations, api_limiters, cpu_lock,
                           memory_lock, gpu_tasks, api_tasks, expired>>

\* the component whose release task t is in
ReleaseComponent(t) ==
    IF call[t].nested THEN Head(expired[t]).component_id
    ELSE call[t].component_id

\* release locks the active list, drops the component's entries and
\* returns Ok: to the caller, or to the loop of the sweep
ReleaseActive(t) ==
    /\ pc[t] = "release_active"
    /\ active_lock = NoTask
    /\ active_allocations' =
           RetainOthers(active_allocations, ReleaseComponent(t))
    /\ IF call[t].nested
       THEN /\ pc' = [pc EXCEPT ![t] = "cleanup_release"]
            /\ call' = [call EXCEPT ![t].nested = FALSE]
            /\ expired' = [expired EXCEPT ![t] = Tail(expired[t])]
            /\ last' = NoEvent
       ELSE Returns(t, call[t], "ok")
    /\ UNCHANGED <<notAllocator, workload, overflow_checks, now, gpu_semaphore, cpu_allocations,
                   memory_allocations, api_limiters, cpu_lock, memory_lock,
                   active_lock, gpu_tasks, api_tasks>>

\* release is called by a component
Release(t, args) ==
    /\ FreeSlot(t)
    /\ args.component_id \in workload.components
    /\ args.kind \in workload.kinds
    /\ ReleaseEnter(t, args.component_id, args.kind,
                    [IdleCall EXCEPT !.op = "release",
                                     !.component_id = args.component_id,
                                     !.resource_type = [kind |-> args.kind, arg |-> <<>>],
                                     !.held = Holds(args.component_id, args.kind)])

(***************************************************************************)
(* allocate_gpu                                                            *)
(***************************************************************************)
\* try_acquire_owned on the semaphore; the Allocation is built (its
\* expires_at read from the clock) before the active list is locked
AllocateGpu(t) ==
    /\ pc[t] = "allocate_gpu"
    /\ IF gpu_semaphore = 0
       THEN /\ Returns(t, call[t], "err")
            /\ UNCHANGED gpu_semaphore
       ELSE /\ Len(active_allocations) + PendingPushes < MaxActive
            /\ BagCardinality(gpu_tasks)
                   + Cardinality({u \in Tasks : pc[u] = "gpu_track"}) < MaxSpawned
            /\ gpu_semaphore' = gpu_semaphore - 1
            /\ pc' = [pc EXCEPT ![t] = "gpu_track"]
            /\ call' = [call EXCEPT ![t].expires_at = now + call[t].duration]
            /\ last' = NoEvent
            /\ UNCHANGED expired
    /\ UNCHANGED <<notAllocator, workload, overflow_checks, now, cpu_allocations, memory_allocations,
                   api_limiters, active_allocations, cpu_lock, memory_lock,
                   active_lock, gpu_tasks, api_tasks>>

\* the task that holds the permit: it sleeps for the duration, with the
\* permit, then drops it, then removes the component's entries
GpuTask(component_id, wake_at) ==
    [component_id |-> component_id, wake_at |-> wake_at, permit |-> TRUE]

\* the active list is locked, the lease pushed, the task spawned; Ok
GpuTrack(t) ==
    /\ pc[t] = "gpu_track"
    /\ active_lock = NoTask
    /\ active_allocations' = Append(active_allocations, Allocation(call[t]))
    /\ gpu_tasks' = gpu_tasks (+)
           SetToBag({GpuTask(call[t].component_id, now + call[t].duration)})
    /\ Returns(t, call[t], "ok")
    /\ UNCHANGED <<notAllocator, workload, overflow_checks, now, gpu_semaphore, cpu_allocations,
                   memory_allocations, api_limiters, cpu_lock, memory_lock,
                   active_lock, api_tasks>>

\* the sleep of a spawned task ends (at its deadline or later): drop(permit)
GpuExpire(g) ==
    /\ g \in BagToSet(gpu_tasks)
    /\ g.permit
    /\ g.wake_at <= now
    /\ gpu_semaphore' = gpu_semaphore + 1
    /\ gpu_tasks' = (gpu_tasks (-) SetToBag({g}))
                        (+) SetToBag({[g EXCEPT !.permit = FALSE]})
    /\ last' = NoEvent
    /\ UNCHANGED <<notAllocator, workload, overflow_checks, now, cpu_allocations, memory_allocations,
                   api_limiters, active_allocations, cpu_lock, memory_lock,
                   active_lock, api_tasks, pc, call, expired>>

\* the spawned task locks the active list, drops the component's entries
\* and ends
GpuRemove(g) ==
    /\ g \in BagToSet(gpu_tasks)
    /\ ~g.permit
    /\ active_lock = NoTask
    /\ active_allocations' = RetainOthers(active_allocations, g.component_id)
    /\ gpu_tasks' = gpu_tasks (-) SetToBag({g})
    /\ last' = NoEvent
    /\ UNCHANGED <<notAllocator, workload, overflow_checks, now, gpu_semaphore, cpu_allocations,
                   memory_allocations, api_limiters, cpu_lock, memory_lock,
                   active_lock, api_tasks, pc, call, expired>>

(***************************************************************************)
(* allocate_cpu and allocate_memory                                        *)
(***************************************************************************)
\* `used + requested > capacity` as the build computes it: "panic" where an
\* addition overflows and the build checks, else whether the request is
\* admitted, on the wrapped sum
Admission(table, requested, capacity, len) ==
    LET used == WrappedSum(table, len)
    IN  IF overflow_checks
           /\ (SumOverflows(table, len) \/ AddOverflows(used, requested))
        THEN "panic"
        ELSE IF Less(capacity, WrappingAdd(used, requested))
        THEN IF overflow_checks /\ Less(capacity, used) THEN "panic" ELSE "err"
        ELSE "ok"

\* the table is locked and the request admitted or refused; an admitted
\* request overwrites the component's entry, and the table stays locked
\* while the active list is awaited
AllocateCpu(t) ==
    /\ pc[t] = "allocate_cpu"
    /\ cpu_lock = NoTask
    /\ LET cores == call[t].resource_type.arg
           verdict == Admission(cpu_allocations, cores, U32(CpuCapacity), 2)
       IN  IF verdict = "ok"
           THEN /\ Len(active_allocations) + PendingPushes < MaxActive
                /\ cpu_allocations' =
                       Insert(cpu_allocations, call[t].component_id, cores)
                /\ cpu_lock' = t
                /\ pc' = [pc EXCEPT ![t] = "cpu_track"]
                /\ call' = [MarkRaced(call, call[t].component_id, "CpuCores")
                               EXCEPT ![t].expires_at = now + call[t].duration]
                /\ last' = NoEvent
                /\ UNCHANGED expired
           ELSE /\ Returns(t, call[t], verdict)
                /\ UNCHANGED <<cpu_allocations, cpu_lock>>
    /\ UNCHANGED <<notAllocator, workload, overflow_checks, now, gpu_semaphore, memory_allocations,
                   api_limiters, active_allocations, memory_lock, active_lock,
                   gpu_tasks, api_tasks>>

\* the active list is locked and the lease pushed; Ok, both locks dropped
CpuTrack(t) ==
    /\ pc[t] = "cpu_track"
    /\ active_lock = NoTask
    /\ active_allocations' = Append(active_allocations, Allocation(call[t]))
    /\ cpu_lock' = NoTask
    /\ Returns(t, call[t], "ok")
    /\ UNCHANGED <<notAllocator, workload, overflow_checks, now, gpu_semaphore, cpu_allocations,
                   memory_allocations, api_limiters, memory_lock, active_lock,
                   gpu_tasks, api_tasks>>

AllocateMemory(t) ==
    /\ pc[t] = "allocate_memory"
    /\ memory_lock = NoTask
    /\ LET bytes == call[t].resource_type.arg
           verdict == Admission(memory_allocations, bytes, MemoryPool, 4)
       IN  IF verdict = "ok"
           THEN /\ Len(active_allocations) + PendingPushes < MaxActive
                /\ memory_allocations' =
                       Insert(memory_allocations, call[t].component_id, bytes)
                /\ memory_lock' = t
                /\ pc' = [pc EXCEPT ![t] = "memory_track"]
                /\ call' = [MarkRaced(call, call[t].component_id, "Memory")
                               EXCEPT ![t].expires_at = now + call[t].duration]
                /\ last' = NoEvent
                /\ UNCHANGED expired
           ELSE /\ Returns(t, call[t], verdict)
                /\ UNCHANGED <<memory_allocations, memory_lock>>
    /\ UNCHANGED <<notAllocator, workload, overflow_checks, now, gpu_semaphore, cpu_allocations,
                   api_limiters, active_allocations, cpu_lock, active_lock,
                   gpu_tasks, api_tasks>>

MemoryTrack(t) ==
    /\ pc[t] = "memory_track"
    /\ active_lock = NoTask
    /\ active_allocations' = Append(active_allocations, Allocation(call[t]))
    /\ memory_lock' = NoTask
    /\ Returns(t, call[t], "ok")
    /\ UNCHANGED <<notAllocator, workload, overflow_checks, now, gpu_semaphore, cpu_allocations,
                   memory_allocations, api_limiters, cpu_lock, active_lock,
                   gpu_tasks, api_tasks>>

(***************************************************************************)
(* allocate_api_quota                                                      *)
(***************************************************************************)
\* the limiters are locked; the api's semaphore is created with ApiPermits
\* permits when it has none yet; try_acquire_owned; a task is spawned that
\* holds the permit for ApiHoldSecs; the limiters are unlocked
AllocateApiQuota(t) ==
    /\ pc[t] = "allocate_api_quota"
    /\ LET api_name == call[t].resource_type.arg[1]
           permits == IF api_limiters[api_name] = Absent THEN ApiPermits
                      ELSE api_limiters[api_name][1]
       IN  IF permits = 0
           THEN /\ api_limiters' = Insert(api_limiters, api_name, <<permits>>)
                /\ Returns(t, call[t], "err")
                /\ UNCHANGED api_tasks
           ELSE /\ BagCardinality(api_tasks) < MaxSpawned
                /\ api_limiters' = Insert(api_limiters, api_name, <<permits - 1>>)
                /\ api_tasks' = api_tasks (+)
                       SetToBag({[api_name |-> api_name,
                                  wake_at |-> now + ApiHoldSecs]})
                /\ Returns(t, call[t], "ok")
    /\ UNCHANGED <<notAllocator, workload, overflow_checks, now, gpu_semaphore, cpu_allocations,
                   memory_allocations, active_allocations, cpu_lock,
                   memory_lock, active_lock, gpu_tasks>>

\* the sleep of the spawned task ends: drop(permit)
ApiExpire(a) ==
    /\ a \in BagToSet(api_tasks)
    /\ a.wake_at <= now
    /\ api_limiters' = Insert(api_limiters, a.api_name,
                               <<api_limiters[a.api_name][1] + 1>>)
    /\ api_tasks' = api_tasks (-) SetToBag({a})
    /\ last' = NoEvent
    /\ UNCHANGED <<notAllocator, workload, overflow_checks, now, gpu_semaphore, cpu_allocations,
                   memory_allocations, active_allocations, cpu_lock,
                   memory_lock, active_lock, gpu_tasks, pc, call, expired>>

(***************************************************************************)
(* get_usage_stats                                                         *)
(***************************************************************************)
\* get_usage_stats is called and reads the available permits
GetUsageStats(t) ==
    /\ FreeSlot(t)
    /\ pc' = [pc EXCEPT ![t] = "stats_cpu"]
    /\ call' = [call EXCEPT ![t] =
                   [IdleCall EXCEPT !.op = "stats",
                                    !.gpu_usage = IF gpu_semaphore > 0 THEN 0 ELSE 1]]
    /\ last' = NoEvent
    /\ UNCHANGED <<notAllocator, workload, overflow_checks, now, gpu_semaphore, cpu_allocations,
                   memory_allocations, api_limiters, active_allocations,
                   cpu_lock, memory_lock, active_lock, gpu_tasks, api_tasks,
                   expired>>

\* Iterator::sum as the build computes it
SumResult(table, len) ==
    IF overflow_checks /\ SumOverflows(table, len) THEN "panic" ELSE "ok"

\* the cpu table is locked and summed; it stays locked to the end
StatsCpu(t) ==
    /\ pc[t] = "stats_cpu"
    /\ cpu_lock = NoTask
    /\ IF SumResult(cpu_allocations, 2) = "panic"
       THEN /\ Returns(t, call[t], "panic")
            /\ UNCHANGED cpu_lock
       ELSE /\ cpu_lock' = t
            /\ pc' = [pc EXCEPT ![t] = "stats_memory"]
            /\ call' = [call EXCEPT ![t].used_cores = WrappedSum(cpu_allocations, 2)]
            /\ last' = NoEvent
            /\ UNCHANGED expired
    /\ UNCHANGED <<notAllocator, workload, overflow_checks, now, gpu_semaphore, cpu_allocations,
                   memory_allocations, api_limiters, active_allocations,
                   memory_lock, active_lock, gpu_tasks, api_tasks>>

\* the memory table is locked and summed; the statistics are returned and
\* both tables unlocked
StatsMemory(t) ==
    /\ pc[t] = "stats_memory"
    /\ memory_lock = NoTask
    /\ cpu_lock' = NoTask
    /\ Returns(t, [call[t] EXCEPT !.used_memory = WrappedSum(memory_allocations, 4)],
               SumResult(memory_allocations, 4))
    /\ UNCHANGED <<notAllocator, workload, overflow_checks, now, gpu_semaphore, cpu_allocations,
                   memory_allocations, api_limiters, active_allocations,
                   memory_lock, active_lock, gpu_tasks, api_tasks>>

(***************************************************************************)
(* Time.                                                                   *)
(***************************************************************************)
\* the number of steps of the clock that lead to instant n
TickCount(n) == (n \div ApiHoldSecs) + (n % ApiHoldSecs)

\* the clock advances: by a second, or to the end of the sleep of a task
\* that holds an api permit
Tick ==
    /\ \E d \in {1} \cup {ApiHoldSecs : a \in BagToSet(api_tasks)} :
          /\ TickCount(now + d) <= MaxTicks
          /\ now' = now + d
    /\ last' = NoEvent
    /\ UNCHANGED <<notAllocator, workload, overflow_checks, gpu_semaphore, cpu_allocations,
                   memory_allocations, api_limiters, active_allocations,
                   cpu_lock, memory_lock, active_lock, gpu_tasks, api_tasks,
                   pc, call, expired>>

Next ==
    \/ \E t \in Tasks, request \in Requests : Allocate(t, request)
    \/ \E t \in Tasks : CleanupRelease(t)
    \/ \E t \in Tasks, args \in ReleaseArgs : Release(t, args)
    \/ \E t \in Tasks : ReleaseActive(t)
    \/ \E t \in Tasks : AllocateGpu(t)
    \/ \E t \in Tasks : GpuTrack(t)
    \/ \E g \in BagToSet(gpu_tasks) : GpuExpire(g)
    \/ \E g \in BagToSet(gpu_tasks) : GpuRemove(g)
    \/ \E t \in Tasks : AllocateCpu(t)
    \/ \E t \in Tasks : CpuTrack(t)
    \/ \E t \in Tasks : AllocateMemory(t)
    \/ \E t \in Tasks : MemoryTrack(t)
    \/ \E t \in Tasks : AllocateApiQuota(t)
    \/ \E a \in BagToSet(api_tasks) : ApiExpire(a)
    \/ \E t \in Tasks : GetUsageStats(t)
    \/ \E t \in Tasks : StatsCpu(t)
    \/ \E t \in Tasks : StatsMemory(t)
    \/ Tick

Spec == Init /\ [][Next]_vars

(***************************************************************************)
(* Properties.                                                             *)
(***************************************************************************)
\* a task awaits the lock of the active list while it holds that lock
\* itself: tokio's Mutex is not reentrant, and no step of any task frees the
\* lock, so the task stays here for ever
Blocked(t) == pc[t] = "release_active" /\ active_lock = t

\* the lock the next step of caller t awaits ("none": no lock)
Awaits(t) ==
    CASE pc[t] \in {"release_active", "gpu_track", "cpu_track", "memory_track"}
            -> "active"
      [] pc[t] \in {"allocate_cpu", "stats_cpu"} -> "cpu"
      [] pc[t] \in {"allocate_memory", "stats_memory"} -> "memory"
      [] pc[t] = "cleanup_release" /\ expired[t] # <<>> ->
            CASE Head(expired[t]).resource_type.kind = "CpuCores" -> "cpu"
              [] Head(expired[t]).resource_type.kind = "Memory" -> "memory"
              [] OTHER -> "none"
      [] OTHER -> "none"

Holder(lock) ==
    CASE lock = "active" -> active_lock
      [] lock = "cpu" -> cpu_lock
      [] lock = "memory" -> memory_lock
      [] OTHER -> NoTask

\* t awaits a lock that u holds
WaitsFor(t, u) == Awaits(t) # "none" /\ Holder(Awaits(t)) = u

GpuEntries ==
    {i \in 1..Len(active_allocations) :
        active_allocations[i].resource_type.kind = "Gpu"}

\* the holders of the GPU permit: spawned tasks that sleep, and callers
\* between try_acquire_owned and the spawn
GpuPermitsHeld ==
    Cardinality({u \in Tasks : pc[u] = "gpu_track"})
        + BagCardinality([g \in {x \in BagToSet(gpu_tasks) : x.permit}
                              |-> gpu_tasks[g]])

\* C1: in every reachable state the cores recorded as allocated sum to at
\* most the CPU capacity, and the bytes recorded as allocated to at most the
\* memory pool
C1_CountedWithinCapacity ==
    /\ Leq(WideSum(cpu_allocations, 2), Widen(U32(CpuCapacity)))
    /\ Leq(WideSum(memory_allocations, 4), Widen(MemoryPool))

\* C2: at most one GPU lease is active: the permit has at most one holder,
\* and the active list never holds two Gpu entries
C2_AtMostOneGpuLease ==
    /\ gpu_semaphore + GpuPermitsHeld = GpuPermits
    /\ Cardinality(GpuEntries) <= 1

\* C3: every call of allocate returns: no call of allocate is at an await
\* that it can never leave
C3_AllocateReturns ==
    \A t \in Tasks : call[t].op = "allocate" => ~Blocked(t)

\* C4: no two concurrent callers wait for each other: none awaits a lock
\* the other holds while the other awaits a lock it holds
C4_NoWaitCycle ==
    \A t \in Tasks : \A u \in Tasks \ {t} :
        ~(WaitsFor(t, u) /\ WaitsFor(u, t))

\* C5: an allocate on CPU cores or memory whose sweep finds an expired lease
\* of that kind returns the lease's units and goes on to the capacity check
C5_ExpiredCountedLeaseReleased ==
    \A t \in Tasks :
        ( /\ call[t].op = "allocate"
          /\ call[t].resource_type.kind \in {"CpuCores", "Memory"}
          /\ expired[t] # <<>>
          /\ Head(expired[t]).resource_type.kind = call[t].resource_type.kind )
        => ~Blocked(t)

\* C6: a GPU allocate by another component, issued once the GPU lease of a
\* component has expired, goes on to acquire the permit
C6_ExpiredGpuLeaseFreesSlot ==
    \A t \in Tasks :
        ( /\ call[t].op = "allocate"
          /\ call[t].resource_type.kind = "Gpu"
          /\ expired[t] # <<>>
          /\ Head(expired[t]).resource_type.kind = "Gpu"
          /\ Head(expired[t]).component_id # call[t].component_id )
        => ~Blocked(t)

\* C7: when release(c, Gpu) returns for a component c that held the GPU, c
\* holds the permit no longer
C7_ReleaseFreesGpu ==
    (last.op = "release" /\ last.kind = "Gpu" /\ last.held)
        => ~\E g \in BagToSet(gpu_tasks) :
               g.component_id = last.component_id /\ g.permit

\* C8: when release(p, k) returns, the active list holds no entry of (p, k),
\* and p has no units in the table of k (unless an allocate of p on k, begun
\* during the release, has put units there since)
C8_ReleaseRemovesLease ==
    last.op = "release" =>
        /\ ~\E i \in 1..Len(active_allocations) :
               /\ active_allocations[i].component_id = last.component_id
               /\ active_allocations[i].resource_type.kind = last.kind
        /\ (last.kind = "CpuCores" /\ ~last.raced)
               => cpu_allocations[last.component_id] = Absent
        /\ (last.kind = "Memory" /\ ~last.raced)
               => memory_allocations[last.component_id] = Absent

\* a release of a lease that was held has returned, on CPU cores, with no
\* allocate overtaking it
C8_Witness ==
    /\ last.op = "release"
    /\ last.kind = "CpuCores"
    /\ last.held
    /\ ~last.raced

\* C9: the active list never holds two unexpired leases of one component on
\* one kind
C9_OneLeasePerComponentAndKind ==
    \A i \in 1..Len(active_allocations), j \in 1..Len(active_allocations) :
        ( /\ i < j
          /\ active_allocations[i].component_id = active_allocations[j].component_id
          /\ active_allocations[i].resource_type.kind
                 = active_allocations[j].resource_type.kind )
        => (active_allocations[i].expires_at <= now
                \/ active_allocations[j].expires_at <= now)

\* the tables and the list after release(p, k) has run from start to end
ReleaseOnce(st, p, k) ==
    [cpu |-> ReleasedCpu(st.cpu, p, k),
     memory |-> ReleasedMemory(st.memory, p, k),
     active |-> RetainOthers(st.active, p)]

\* C10: release; release leaves what release leaves, and a release of a
\* lease that does not exist changes nothing
C10_ReleaseIdempotent ==
    \A p \in Components, k \in Kinds :
        LET st == [cpu |-> cpu_allocations, memory |-> memory_allocations,
                   active |-> active_allocations]
        IN  /\ ReleaseOnce(ReleaseOnce(st, p, k), p, k) = ReleaseOnce(st, p, k)
            /\ ~Holds(p, k) => ReleaseOnce(st, p, k) = st

\* C11: a lease granted for duration 0 never blocks a later allocate.  The
\* clock starts at 0 and a lease expires at its grant time plus its duration,
\* so the records that expire at 0 are leases granted for duration 0: an
\* allocate whose sweep finds only such records goes on and returns
C11_DurationZeroNeverBlocks ==
    \A t \in Tasks :
        ( /\ call[t].op = "allocate"
          /\ expired[t] # <<>>
          /\ \A i \in 1..Len(expired[t]) : expired[t][i].expires_at = 0 )
        => ~Blocked(t)

\* C32: release(p, k) touches the lease of p on k only: it leaves in the
\* active list every lease of p on another kind and every lease of another
\* component, and leaves the tables of the other kinds and the entries of
\* the other components as they were
C32_ReleaseTouchesOnlyThatLease ==
    \A p \in Components, k \in Kinds :
        LET st == [cpu |-> cpu_allocations, memory |-> memory_allocations,
                   active |-> active_allocations]
            after == ReleaseOnce(st, p, k)
            Others(alloc) ==
                alloc.component_id # p \/ alloc.resource_type.kind # k
        IN  /\ SelectSeq(after.active, Others) = SelectSeq(st.active, Others)
            /\ \A q \in Components :
                   (q # p \/ k # "CpuCores") => after.cpu[q] = st.cpu[q]
            /\ \A q \in Components :
                   (q # p \/ k # "Memory") => after.memory[q] = st.memory[q]

\* no operation is in progress
Quiescent == \A t \in Tasks : pc[t] = "idle"

\* the leases of component p of a kind in the active list
LeasesOf(p, kind) ==
    {i \in 1..Len(active_allocations) :
        /\ active_allocations[i].component_id = p
        /\ active_allocations[i].resource_type.kind = kind}

\* C33: with no operation in progress, a component has units in the CPU
\* (memory) table exactly when the active list holds one CPU (memory) lease
\* of it, of that quantity
C33_BookkeepingNeverDrifts ==
    Quiescent =>
        \A p \in Components :
            /\ cpu_allocations[p] # Absent
                   <=> \E i \in LeasesOf(p, "CpuCores") :
                           /\ LeasesOf(p, "CpuCores") = {i}
                           /\ active_allocations[i].resource_type.arg
                                  = cpu_allocations[p]
            /\ memory_allocations[p] # Absent
                   <=> \E i \in LeasesOf(p, "Memory") :
                           /\ LeasesOf(p, "Memory") = {i}
                           /\ active_allocations[i].resource_type.arg
                                  = memory_allocations[p]

\* the mathematical sum of the table and the request is within the capacity
FitsCapacity(table, requested, capacity, len) ==
    Leq(WrappingAdd(WideSum(table, len), Widen(requested)), Widen(capacity))

\* C34: in every state the admission of a request for cores or bytes
\* decides on the mathematical sum: it accepts exactly when the sum of what
\* is counted and what is asked is within the capacity, and never aborts
C34_AdmissionOnMathematicalSum ==
    /\ \A cores \in CpuRequests :
           /\ Admission(cpu_allocations, cores, U32(CpuCapacity), 2) # "panic"
           /\ Admission(cpu_allocations, cores, U32(CpuCapacity), 2) = "ok"
                  <=> FitsCapacity(cpu_allocations, cores, U32(CpuCapacity), 2)
    /\ \A bytes \in MemoryRequests :
           /\ Admission(memory_allocations, bytes, MemoryPool, 4) # "panic"
           /\ Admission(memory_allocations, bytes, MemoryPool, 4) = "ok"
                  <=> FitsCapacity(memory_allocations, bytes, MemoryPool, 4)

(***************************************************************************)
(* RateLimiter: the token bucket of rate_limiter.rs.  Tokens are an f64;   *)
(* here they are counted in half tokens, the clock in seconds and the      *)
(* refill rate in half tokens per second, all of which an f64 holds        *)
(* exactly.  Every critical section (the tokens mutex taken, last_refill   *)
(* taken under it, the clock read, both dropped) is one step.              *)
(***************************************************************************)
MaxClock == 3

TokenScale == 2

BucketCapacities == {1, 2}

\* 0, 0.5 and 1 token per second
RefillRates == {0, 1, 2}

TokensNeeded == {1, 2, 3}

\* the allocator when no ResourceAllocator is in use
AllocatorOff ==
    /\ workload = [tasks |-> {}, components |-> {}, kinds |-> {}]
    /\ overflow_checks = FALSE
    /\ gpu_semaphore = GpuPermits
    /\ cpu_allocations = [c \in Components |-> Absent]
    /\ memory_allocations = [c \in Components |-> Absent]
    /\ api_limiters = [n \in ApiNames |-> Absent]
    /\ active_allocations = <<>>
    /\ cpu_lock = NoTask
    /\ memory_lock = NoTask
    /\ active_lock = NoTask
    /\ gpu_tasks = EmptyBag
    /\ api_tasks = EmptyBag
    /\ pc = [t \in Tasks |-> "idle"]
    /\ call = [t \in Tasks |-> IdleCall]
    /\ expired = [t \in Tasks |-> <<>>]
    /\ last = NoEvent

\* RateLimiter::new: the bucket starts full
BucketInit ==
    /\ now = 0
    /\ AllocatorOff
    /\ WindowOff
    /\ TiersOff
    /\ MatchOff
    /\ RouterOff
    /\ RestOff
    /\ bucket_capacity \in BucketCapacities
    /\ bucket_refill_rate \in RefillRates
    /\ tokens = bucket_capacity * TokenScale
    /\ last_refill = 0
    /\ bucket_pc = [t \in Tasks |-> "idle"]
    /\ bucket_call = [t \in Tasks |-> IdleAcquire]
    /\ bucket_last = NoEvent

\* `n as f64`, in half tokens
Halves(n) == n * TokenScale

Min(a, b) == IF a <= b THEN a ELSE b

\* a RateLimiter: its fields
NewBucket(cap, rate) ==
    [capacity |-> cap, refill_rate |-> rate, tokens |-> Halves(cap),
     last_refill |-> now]

Bucket ==
    [capacity |-> bucket_capacity, refill_rate |-> bucket_refill_rate,
     tokens |-> tokens, last_refill |-> last_refill]

\* the refill of try_acquire and available_tokens at clock `at`
RefilledUnclamped(b, at) ==
    LET tokens_to_add == (at - b.last_refill) * b.refill_rate
    IN  IF tokens_to_add > 0
        THEN [b EXCEPT !.tokens = b.tokens + tokens_to_add, !.last_refill = at]
        ELSE b

Refilled(b, at) ==
    LET tokens_to_add == (at - b.last_refill) * b.refill_rate
    IN  IF tokens_to_add > 0
        THEN [b EXCEPT !.tokens = Min(b.tokens + tokens_to_add, Halves(b.capacity)),
                       !.last_refill = at]
        ELSE b

\* try_acquire(tokens_needed) on bucket b at clock `at`: its result, and the
\* bucket it leaves
TryAcquiredDeductsAlways(b, tokens_needed, at) ==
    IF tokens_needed > b.capacity
    THEN [result |-> "err", bucket |-> b]
    ELSE LET r == Refilled(b, at)
         IN  IF r.tokens >= Halves(tokens_needed)
             THEN [result |-> "ok",
                   bucket |-> [r EXCEPT !.tokens = r.tokens - Halves(tokens_needed)]]
             ELSE [result |-> "err", bucket |-> [r EXCEPT !.tokens = 0]]

TryAcquired(b, tokens_needed, at) ==
    IF tokens_needed > b.capacity
    THEN [result |-> "err", bucket |-> b]
    ELSE LET r == Refilled(b, at)
         IN  IF r.tokens >= Halves(tokens_needed)
             THEN [result |-> "ok",
                   bucket |-> [r EXCEPT !.tokens = r.tokens - Halves(tokens_needed)]]
             ELSE [result |-> "err", bucket |-> r]

\* the call of task t that returns in this step, with the bucket it found
BucketEvent(op, t, tokens_needed, result) ==
    [op |-> op, task |-> t, tokens_needed |-> tokens_needed, result |-> result,
     tokens_before |-> tokens, last_refill_before |-> last_refill, at |-> now,
     disturbed |-> bucket_call[t].disturbed]

\* tokens were taken by task t: the acquires of the others are disturbed
Disturbed(calls, t) ==
    [u \in Tasks |->
        IF u # t /\ bucket_pc[u] # "idle"
        THEN [calls[u] EXCEPT !.disturbed = TRUE]
        ELSE calls[u]]

\* try_acquire(tokens_needed) by an idle caller
TryAcquire(t, tokens_needed) ==
    /\ bucket_pc[t] = "idle"
    /\ LET r == TryAcquired(Bucket, tokens_needed, now)
       IN  /\ tokens' = r.bucket.tokens
           /\ last_refill' = r.bucket.last_refill
           /\ bucket_last' = BucketEvent("try_acquire", t, tokens_needed, r.result)
           /\ bucket_call' = IF r.result = "ok" THEN Disturbed(bucket_call, t)
                             ELSE bucket_call
    /\ UNCHANGED <<now, notBucket, bucket_capacity, bucket_refill_rate, bucket_pc>>

\* available_tokens by an idle caller: the bucket is refilled and read
AvailableTokens(t) ==
    /\ bucket_pc[t] = "idle"
    /\ LET r == Refilled(Bucket, now)
       IN  /\ tokens' = r.tokens
           /\ last_refill' = r.last_refill
           /\ bucket_last' = BucketEvent("available_tokens", t, 0, r.tokens)
    /\ UNCHANGED <<now, notBucket, bucket_capacity, bucket_refill_rate, bucket_pc,
                   bucket_call>>

\* acquire(tokens_needed) is called: Err at once above the capacity, else the loop
Acquire(t, tokens_needed) ==
    /\ bucket_pc[t] = "idle"
    /\ IF tokens_needed > bucket_capacity
       THEN /\ bucket_last' = BucketEvent("acquire", t, tokens_needed, "err")
            /\ UNCHANGED <<bucket_pc, bucket_call>>
       ELSE /\ bucket_pc' = [bucket_pc EXCEPT ![t] = "try_acquire"]
            /\ bucket_call' = [bucket_call EXCEPT
                                  ![t] = [IdleAcquire EXCEPT
                                             !.tokens_needed = tokens_needed]]
            /\ bucket_last' = NoEvent
    /\ UNCHANGED <<now, notBucket, bucket_capacity, bucket_refill_rate, tokens,
                   last_refill>>

\* the probe of the loop: Ok returns, Err goes on to the estimate
AcquireTry(t) ==
    /\ bucket_pc[t] = "try_acquire"
    /\ LET r == TryAcquired(Bucket, bucket_call[t].tokens_needed, now)
       IN  /\ tokens' = r.bucket.tokens
           /\ last_refill' = r.bucket.last_refill
           /\ IF r.result = "ok"
              THEN /\ bucket_pc' = [bucket_pc EXCEPT ![t] = "idle"]
                   /\ bucket_call' = [Disturbed(bucket_call, t) EXCEPT
                                         ![t] = IdleAcquire]
                   /\ bucket_last' = BucketEvent("acquire", t,
                                          bucket_call[t].tokens_needed, "ok")
              ELSE /\ bucket_pc' = [bucket_pc EXCEPT ![t] = "estimate"]
                   /\ bucket_last' = NoEvent
                   /\ UNCHANGED bucket_call
    /\ UNCHANGED <<now, notBucket, bucket_capacity, bucket_refill_rate>>

\* `secs` seconds have a Duration: Duration::from_secs_f64 panics on a
\* negative, infinite or NaN argument (tokens_short / refill_rate)
HasDuration(tokens_short) == bucket_refill_rate > 0 /\ tokens_short >= 0

\* the seconds after which a sleep of tokens_short / refill_rate is over
WaitSeconds(tokens_short) ==
    (tokens_short + bucket_refill_rate - 1) \div bucket_refill_rate

\* the tokens are read again and the wait computed; the task panics where
\* the wait is no Duration
AcquireEstimate(t) ==
    /\ bucket_pc[t] = "estimate"
    /\ LET tokens_short == Halves(bucket_call[t].tokens_needed) - tokens
       IN  IF HasDuration(tokens_short)
           THEN /\ bucket_pc' = [bucket_pc EXCEPT ![t] = "sleep"]
                /\ bucket_call' = [bucket_call EXCEPT
                                      ![t].wake_at = now + WaitSeconds(tokens_short)]
                /\ bucket_last' = NoEvent
           ELSE /\ bucket_pc' = [bucket_pc EXCEPT ![t] = "idle"]
                /\ bucket_call' = [bucket_call EXCEPT ![t] = IdleAcquire]
                /\ bucket_last' = BucketEvent("acquire", t,
                                       bucket_call[t].tokens_needed, "panic")
    /\ UNCHANGED <<now, notBucket, bucket_capacity, bucket_refill_rate, tokens,
                   last_refill>>

\* the sleep is over: the loop probes again
AcquireWake(t) ==
    /\ bucket_pc[t] = "sleep"
    /\ bucket_call[t].wake_at <= now
    /\ bucket_pc' = [bucket_pc EXCEPT ![t] = "try_acquire"]
    /\ bucket_last' = NoEvent
    /\ UNCHANGED <<now, notBucket, bucket_capacity, bucket_refill_rate, tokens,
                   last_refill, bucket_call>>

\* a second passes
BucketTick ==
    /\ now < MaxClock
    /\ now' = now + 1
    /\ bucket_last' = NoEvent
    /\ UNCHANGED <<notBucket, bucket_capacity, bucket_refill_rate, tokens,
                   last_refill, bucket_pc, bucket_call>>

BucketNext ==
    \/ \E t \in Tasks, k \in TokensNeeded : TryAcquire(t, k)
    \/ \E t \in Tasks : AvailableTokens(t)
    \/ \E t \in Tasks, k \in TokensNeeded : Acquire(t, k)
    \/ \E t \in Tasks : AcquireTry(t)
    \/ \E t \in Tasks : AcquireEstimate(t)
    \/ \E t \in Tasks : AcquireWake(t)
    \/ BucketTick

BucketSpec == BucketInit /\ [][BucketNext]_vars

\* C12: in every reachable state of the bucket the stored token count is at
\* least 0 and at most the capacity
C12_TokensWithinCapacity ==
    0 <= tokens /\ tokens <= Halves(bucket_capacity)

\* available_tokens has returned from a refill that the capacity cut short
C12_Witness ==
    /\ bucket_last.op = "available_tokens"
    /\ bucket_last.tokens_before
           + (bucket_last.at - bucket_last.last_refill_before) * bucket_refill_rate
         > Halves(bucket_capacity)
    /\ tokens = Halves(bucket_capacity)

\* C13: try_acquire(k) returns what the reference algorithm returns and
\* leaves the bucket it leaves: above the capacity it fails and changes
\* neither t nor T; else with t' = min(C, t + (now - T) * R) it succeeds iff
\* t' >= k, leaving t' - k, and on failure leaves t'
C13_TryAcquireIsReference ==
    bucket_last.op = "try_acquire" =>
        LET k == Halves(bucket_last.tokens_needed)
            C == Halves(bucket_capacity)
            t == bucket_last.tokens_before
            T == bucket_last.last_refill_before
            grown == t + (bucket_last.at - T) * bucket_refill_rate
            refilled == IF grown <= C THEN grown ELSE C
        IN  IF k > C
            THEN /\ bucket_last.result = "err"
                 /\ tokens = t
                 /\ last_refill = T
            ELSE /\ bucket_last.result = "ok" <=> refilled >= k
                 /\ bucket_last.result = "ok" => tokens = refilled - k
                 /\ bucket_last.result = "err" => tokens = refilled

\* a try_acquire within the capacity has failed on a bucket that its own
\* refill had raised
C13_Witness ==
    /\ bucket_last.op = "try_acquire"
    /\ bucket_last.tokens_needed <= bucket_capacity
    /\ bucket_last.result = "err"
    /\ tokens > bucket_last.tokens_before

\* C14: an acquire(k) with k within the capacity, on a bucket with a refill
\* rate above 0 from which no other caller takes tokens meanwhile, ends only
\* by returning Ok
C14_AcquireEndsInSuccess ==
    ( /\ bucket_last.op = "acquire"
      /\ bucket_last.tokens_needed <= bucket_capacity
      /\ bucket_refill_rate > 0
      /\ ~bucket_last.disturbed )
    => bucket_last.result = "ok"

\* C35: in acquire(k) the wait computed after a failed probe is a finite
\* duration that is not negative, whatever other callers do between the
\* probe and the reading of the tokens: no acquire ends in a panic
C35_WaitIsDuration ==
    bucket_last.op = "acquire" => bucket_last.result # "panic"

(***************************************************************************)
(* SlidingWindowLimiter.  Every call runs under the requests mutex and     *)
(* reads the clock under it: one step each.                                *)
(***************************************************************************)
WindowMaxima == {1, 2}

WindowDurations == {1, 2}

\* SlidingWindowLimiter::new: no request is recorded
WindowInit ==
    /\ now = 0
    /\ AllocatorOff
    /\ BucketOff
    /\ TiersOff
    /\ MatchOff
    /\ RouterOff
    /\ RestOff
    /\ window_max_requests \in WindowMaxima
    /\ window_duration \in WindowDurations
    /\ requests = <<>>
    /\ granted = <<>>
    /\ window_last = NoEvent

\* now.duration_since(earlier): zero where earlier is the later one
DurationSince(at, earlier) == IF at >= earlier THEN at - earlier ELSE 0

\* while let Some(&front) = requests.front(): pop the requests older than
\* the window
RECURSIVE Evicted(_, _)
Evicted(q, at) ==
    IF q # <<>> /\ DurationSince(at, Head(q)) > window_duration
    THEN Evicted(Tail(q), at)
    ELSE q

\* requests.len() < self.max_requests as usize
HasRoomOffByOne(q) == Len(q) <= window_max_requests

HasRoom(q) == Len(q) < window_max_requests

\* the last max_requests + 1 successes
LastGrants(g) ==
    IF Len(g) > window_max_requests + 1 THEN Tail(g) ELSE g

\* the call that returns in this step, with the queue it found
WindowEvent(op, result) ==
    [op |-> op, result |-> result, at |-> now, requests_before |-> requests]

\* try_acquire: evict, then record the request if there is room
WindowTryAcquire ==
    /\ LET q == Evicted(requests, now)
       IN  IF HasRoom(q)
           THEN /\ requests' = Append(q, now)
                /\ granted' = LastGrants(Append(granted, now))
                /\ window_last' = WindowEvent("try_acquire", "ok")
           ELSE /\ requests' = q
                /\ window_last' = WindowEvent("try_acquire", "err")
                /\ UNCHANGED granted
    /\ UNCHANGED <<now, notWindow, window_max_requests, window_duration>>

\* current_count: evict, then the length
CurrentCount ==
    /\ requests' = Evicted(requests, now)
    /\ window_last' = WindowEvent("current_count", Len(Evicted(requests, now)))
    /\ UNCHANGED <<now, notWindow, window_max_requests, window_duration, granted>>

\* time_until_available in the current state: <<>> is None, <<d>> is Some(d)
TimeUntil(q, at) ==
    IF Len(q) < window_max_requests THEN <<>>
    ELSE IF q = <<>> THEN <<>>
    ELSE IF DurationSince(at, Head(q)) < window_duration
         THEN <<window_duration - DurationSince(at, Head(q))>>
         ELSE <<>>

TimeUntilAvailable ==
    /\ window_last' = WindowEvent("time_until_available", TimeUntil(requests, now))
    /\ UNCHANGED <<now, notWindow, window_max_requests, window_duration, requests,
                   granted>>

\* a second passes
WindowTick ==
    /\ now < MaxClock
    /\ now' = now + 1
    /\ window_last' = NoEvent
    /\ UNCHANGED <<notWindow, window_max_requests, window_duration, requests,
                   granted>>

WindowNext ==
    \/ WindowTryAcquire
    \/ CurrentCount
    \/ TimeUntilAvailable
    \/ WindowTick

WindowSpec == WindowInit /\ [][WindowNext]_vars

\* C15: the queue holds at most N entries in non-decreasing order, and no
\* more than N calls of try_acquire succeed in a span shorter than W: of any
\* N + 1 successes in a row the last is at least W after the first
C15_WindowBound ==
    /\ Len(requests) <= window_max_requests
    /\ \A i \in 1..Len(requests) : \A j \in i..Len(requests) :
           requests[i] <= requests[j]
    /\ Len(granted) = window_max_requests + 1
           => granted[Len(granted)] - granted[1] >= window_duration

\* try_acquire has failed on a full window after N + 1 successes
C15_Witness ==
    /\ window_last.op = "try_acquire"
    /\ window_last.result = "err"
    /\ Len(requests) = window_max_requests
    /\ Len(granted) = window_max_requests + 1

\* C16: a try_acquire issued on a full window at a time `now` with
\* now - head >= W, head the oldest recorded request, succeeds
C16_SlotFreesAfterWindow ==
    ( /\ window_last.op = "try_acquire"
      /\ Len(window_last.requests_before) = window_max_requests
      /\ window_last.at - Head(window_last.requests_before) >= window_duration )
    => window_last.result = "ok"

\* C36: time_until_available returns None exactly when a try_acquire at the
\* same instant would succeed; otherwise it returns W - (now - head), head
\* the oldest recorded request, and a try_acquire that long after succeeds
C36_TimeUntilAgreesWithTryAcquire ==
    window_last.op = "time_until_available" =>
        /\ window_last.result = <<>> <=> HasRoom(Evicted(requests, now))
        /\ window_last.result # <<>> =>
               /\ window_last.result
                      = <<window_duration - (now - Head(requests))>>
               /\ HasRoom(Evicted(requests, now + window_last.result[1]))

(***************************************************************************)
(* MultiTierRateLimiter.  The tiers are fixed when the builder builds; a   *)
(* call holds the client_tiers mutex to its end: one step each.            *)
(***************************************************************************)
TierNames == {"basic", "premium", "gold"}

Clients == {"client1", "client2"}

\* the tiers a builder can add: capacity, and refill rate in half tokens
\* per second
TierLimits ==
    [basic |-> [capacity |-> 1, refill_rate |-> 1],
     premium |-> [capacity |-> 2, refill_rate |-> 2]]

\* RateLimiterBuilder::build: the tiers added, no client assigned
TierInit ==
    /\ now = 0
    /\ AllocatorOff
    /\ BucketOff
    /\ WindowOff
    /\ MatchOff
    /\ RouterOff
    /\ RestOff
    /\ \E added \in SUBSET (DOMAIN TierLimits) :
           tiers = [n \in added |->
                       NewBucket(TierLimits[n].capacity, TierLimits[n].refill_rate)]
    /\ client_tiers = [c \in Clients |-> NoTier]
    /\ default_tier \in {"basic", "gold"}
    /\ tier_last = NoEvent

\* assign_client_tier on the mapping: its result, and the mapping it leaves
AssignedUnchecked(map, client, tier) ==
    [result |-> "ok", client_tiers |-> [map EXCEPT ![client] = tier]]

Assigned(map, client, tier) ==
    IF tier \notin DOMAIN tiers
    THEN [result |-> "err", client_tiers |-> map]
    ELSE [result |-> "ok", client_tiers |-> [map EXCEPT ![client] = tier]]

\* client_tiers.get(client_id).unwrap_or(&self.default_tier)
Resolved(map, client) ==
    IF map[client] # NoTier THEN map[client] ELSE default_tier

\* the call that returns in this step, with the registry it found
TierEvent(op, client, tier, result) ==
    [op |-> op, client |-> client, tier |-> tier, result |-> result,
     tiers_before |-> tiers, client_tiers_before |-> client_tiers]

AssignClientTier(client, tier) ==
    /\ LET r == Assigned(client_tiers, client, tier)
       IN  /\ client_tiers' = r.client_tiers
           /\ tier_last' = TierEvent("assign_client_tier", client, tier, r.result)
    /\ UNCHANGED <<now, notTiers, tiers, default_tier>>

\* try_acquire(client_id, tokens): the bucket of the client's tier is
\* probed, if the tier has one
TierTryAcquire(client, tokens_needed) ==
    /\ LET tier == Resolved(client_tiers, client)
       IN  IF tier \in DOMAIN tiers
           THEN LET r == TryAcquired(tiers[tier], tokens_needed, now)
                IN  /\ tiers' = [tiers EXCEPT ![tier] = r.bucket]
                    /\ tier_last' = TierEvent("try_acquire", client, tier, r.result)
           ELSE /\ tier_last' = TierEvent("try_acquire", client, tier, "err")
                /\ UNCHANGED tiers
    /\ UNCHANGED <<now, notTiers, client_tiers, default_tier>>

GetClientTier(client) ==
    /\ tier_last' = TierEvent("get_client_tier", client, NoTier,
                              Resolved(client_tiers, client))
    /\ UNCHANGED <<now, notTiers, tiers, client_tiers, default_tier>>

\* a second passes
TierTick ==
    /\ now < MaxClock
    /\ now' = now + 1
    /\ tier_last' = NoEvent
    /\ UNCHANGED <<notTiers, tiers, client_tiers, default_tier>>

TierNext ==
    \/ \E c \in Clients, n \in TierNames : AssignClientTier(c, n)
    \/ \E c \in Clients, k \in TokensNeeded : TierTryAcquire(c, k)
    \/ \E c \in Clients : GetClientTier(c)
    \/ TierTick

TierSpec == TierInit /\ [][TierNext]_vars

\* C17: no call creates a tier; assign_client_tier with a tier that has no
\* bucket fails and leaves the mapping as it was; a client with no mapping
\* resolves to the default tier; try_acquire for a client whose tier has no
\* bucket fails and leaves every bucket as it was, and any try_acquire
\* leaves the buckets of the other tiers as they were
C17_NoImplicitTier ==
    tier_last.op # "none" =>
        LET e == tier_last
            unmapped == e.client_tiers_before[e.client] = NoTier
        IN  /\ DOMAIN tiers = DOMAIN e.tiers_before
            /\ (e.op = "assign_client_tier" /\ e.tier \notin DOMAIN e.tiers_before)
                   => (e.result = "err" /\ client_tiers = e.client_tiers_before)
            /\ (e.op = "get_client_tier" /\ unmapped) => e.result = default_tier
            /\ (e.op = "try_acquire" /\ unmapped) => e.tier = default_tier
            /\ (e.op = "try_acquire" /\ e.tier \notin DOMAIN e.tiers_before)
                   => (e.result = "err" /\ tiers = e.tiers_before)
            /\ e.op = "try_acquire"
                   => \A n \in DOMAIN tiers \ {e.tier} : tiers[n] = e.tiers_before[n]

\* a client without a mapping, whose default tier has no bucket while
\* another tier has one, has been refused by try_acquire
C17_Witness ==
    /\ tier_last.op = "try_acquire"
    /\ tier_last.client_tiers_before[tier_last.client] = NoTier
    /\ tier_last.tier \notin DOMAIN tiers
    /\ DOMAIN tiers # {}
    /\ tier_last.result = "err"

(***************************************************************************)
(* EventRouter::matches_pattern.  A string is the sequence of its          *)
(* characters.                                                             *)
(***************************************************************************)
\* the longest topic and the longest pattern
MaxLen == 5

\* a letter, the wildcard, the separator
Alphabet == {"a", "*", "."}

Strings == UNION {[1..n -> Alphabet] : n \in 0..MaxLen}

\* str::split('.'): the pieces between the separators, empty ones included
RECURSIVE Split(_)
Split(s) ==
    IF \A i \in 1..Len(s) : s[i] # "."
    THEN <<s>>
    ELSE LET d == CHOOSE i \in 1..Len(s) :
                      s[i] = "." /\ \A j \in 1..(i - 1) : s[j] # "."
         IN  <<SubSeq(s, 1, d - 1)>> \o Split(SubSeq(s, d + 1, Len(s)))

\* matches_pattern(topic, pattern)
MatchesPatternZipOnly(topic, pattern) ==
    IF pattern = topic
    THEN TRUE
    ELSE LET pattern_parts == Split(pattern)
             topic_parts == Split(topic)
             zipped == 1..Min(Len(pattern_parts), Len(topic_parts))
         IN  \A i \in zipped :
                 ~(pattern_parts[i] # <<"*">> /\ pattern_parts[i] # topic_parts[i])

MatchesPattern(topic, pattern) ==
    IF pattern = topic
    THEN TRUE
    ELSE LET pattern_parts == Split(pattern)
             topic_parts == Split(topic)
         IN  IF Len(pattern_parts) # Len(topic_parts)
             THEN FALSE
             ELSE \A i \in 1..Len(pattern_parts) :
                      ~(pattern_parts[i] # <<"*">> /\ pattern_parts[i] # topic_parts[i])

\* the arguments of one call
MatchInit ==
    /\ now = 0
    /\ AllocatorOff
    /\ BucketOff
    /\ WindowOff
    /\ TiersOff
    /\ RouterOff
    /\ RestOff
    /\ match_topic \in Strings
    /\ match_pattern \in Strings
    /\ match_last = NoEvent

\* the call returns
MatchesPatternCall ==
    /\ match_last = NoEvent
    /\ match_last' = [op |-> "matches_pattern",
                      result |-> MatchesPattern(match_topic, match_pattern)]
    /\ UNCHANGED <<now, notMatch, match_topic, match_pattern>>

MatchNext == MatchesPatternCall

MatchSpec == MatchInit /\ [][MatchNext]_vars

\* the segments of a string, read off the positions of its separators
Dots(s) == {i \in 1..Len(s) : s[i] = "."}

SegmentCount(s) == Cardinality(Dots(s)) + 1

\* the k-th separator of s; position 0 before the first segment and
\* Len(s) + 1 after the last stand for the ends of the string
Dot(s, k) ==
    IF k = 0 THEN 0
    ELSE IF k = SegmentCount(s) THEN Len(s) + 1
    ELSE CHOOSE d \in Dots(s) : Cardinality({e \in Dots(s) : e < d}) = k - 1

Segment(s, k) == SubSeq(s, Dot(s, k - 1) + 1, Dot(s, k) - 1)

\* C18: matches_pattern(T, P) is true exactly when P and T have the same
\* number of segments and every segment of P is "*" or equal to the segment
\* of T at the same position
C18_MatchIsSegmentWise ==
    match_last.op = "matches_pattern" =>
        (match_last.result <=>
            /\ SegmentCount(match_pattern) = SegmentCount(match_topic)
            /\ \A k \in 1..SegmentCount(match_pattern) :
                   \/ Segment(match_pattern, k) = <<"*">>
                   \/ Segment(match_pattern, k) = Segment(match_topic, k))

\* a pattern with a wildcard has been refused for a topic it is a proper
\* prefix match of: its segments match the first segments of the topic
C18_Witness ==
    /\ match_last.op = "matches_pattern"
    /\ ~match_last.result
    /\ \E i \in 1..Len(match_pattern) : match_pattern[i] = "*"
    /\ SegmentCount(match_pattern) < SegmentCount(match_topic)
    /\ \A k \in 1..SegmentCount(match_pattern) :
           \/ Segment(match_pattern, k) = <<"*">>
           \/ Segment(match_pattern, k) = Segment(match_topic, k)

\* C37: a "*" segment of the pattern matches only a non-empty segment of
\* the topic: when P and T have the same number of segments and the segment
\* of T at the position of a "*" of P is empty, matches_pattern(T, P) is false
C37_StarNeedsNonEmptySegment ==
    ( /\ match_last.op = "matches_pattern"
      /\ SegmentCount(match_pattern) = SegmentCount(match_topic)
      /\ \E k \in 1..SegmentCount(match_pattern) :
             /\ Segment(match_pattern, k) = <<"*">>
             /\ Segment(match_topic, k) = <<>> )
        => ~match_last.result

(***************************************************************************)
(* EventRouter.  A DashMap entry is read or altered under the lock of its  *)
(* shard: one step for each entry a loop of route_event comes to, with     *)
(* subscriptions and receiver drops between the steps.  An entry with an   *)
(* empty Vec and a missing entry behave alike and are not told apart.      *)
(* One route_event call is followed step by step; of the calls that        *)
(* overlap it, what they do to the index is modelled: their cleanup.       *)
(***************************************************************************)
\* the route_event calls of one run
MaxRoutes == 2

\* the closures and the senders, in the order they are subscribed
HandlerOrder == <<"h1">>

SinkOrder == <<"s1", "s2">>

Range(q) == {q[i] : i \in 1..Len(q)}

Handlers == Range(HandlerOrder)

Sinks == Range(SinkOrder)

Subscribers == Handlers \cup Sinks

\* a topic or a pattern is the sequence of its segments and separators
EventToTopic(event_type) ==
    CASE event_type = "GameState" -> <<"game", ".", "state", ".", "update">>
      [] event_type = "Heartbeat" -> <<"system", ".", "heartbeat">>
      [] event_type = "MoneyChanged" -> <<"game", ".", "money", ".", "changed">>
      [] event_type = "ScoreChanged" -> <<"game", ".", "score", ".", "changed">>
      [] event_type = "HandPlayed" -> <<"game", ".", "hand", ".", "played">>
      [] event_type = "CardsDiscarded" -> <<"game", ".", "cards", ".", "discarded">>
      [] event_type = "JokersChanged" -> <<"game", ".", "jokers", ".", "changed">>
      [] event_type = "RoundChanged" -> <<"game", ".", "round", ".", "changed">>
      [] event_type = "PhaseChanged" -> <<"game", ".", "phase", ".", "changed">>
      [] event_type = "RoundComplete" -> <<"game", ".", "round", ".", "complete">>
      [] event_type = "ConnectionTest" -> <<"system", ".", "connection", ".", "test">>
      [] OTHER -> <<"unknown">>

\* the events routed
EventTypes == {"GameState", "MoneyChanged"}

\* the patterns subscribed with
RouterPatterns ==
    {<<"game", ".", "*", ".", "update">>, <<"*", ".", "*", ".", "*">>}

NoPattern == <<>>

NoCopies == [x \in Subscribers |-> 0]

IdleRoute == [id |-> 0, topic |-> <<>>, before |-> {}, dead_before |-> {}]

\* EventRouter::new
RouterInit ==
    /\ now = 0
    /\ AllocatorOff
    /\ BucketOff
    /\ WindowOff
    /\ TiersOff
    /\ MatchOff
    /\ RestOff
    /\ handlers = [p \in RouterPatterns |-> <<>>]
    /\ channels = [p \in RouterPatterns |-> <<>>]
    /\ pattern_of = [x \in Subscribers |-> NoPattern]
    /\ panicking = {}
    /\ closed = {}
    /\ inbox = [s \in Sinks |-> <<>>]
    /\ received = [s \in Sinks |-> <<>>]
    /\ route_pc = "idle"
    /\ route_call = IdleRoute
    /\ visited = {}
    /\ dead_channels = <<>>
    /\ delivered = NoCopies
    /\ routes_started = 0
    /\ failed_pushes = [s \in Sinks |-> 0]
    /\ router_last = NoEvent

\* the subscribers that have been subscribed, and those in the index now
Subscribed == {x \in Subscribers : pattern_of[x] # NoPattern}

InIndex ==
    UNION {Range(handlers[p]) \cup Range(channels[p]) : p \in RouterPatterns}

\* subscribe_handler(pattern, handler), with a closure that returns or one
\* that panics
SubscribeHandler(pattern, panics) ==
    /\ Cardinality(Subscribed \cap Handlers) < Len(HandlerOrder)
    /\ LET handler == HandlerOrder[Cardinality(Subscribed \cap Handlers) + 1]
       IN  /\ handlers' = [handlers EXCEPT ![pattern] = Append(@, handler)]
           /\ pattern_of' = [pattern_of EXCEPT ![handler] = pattern]
           /\ panicking' = IF panics THEN panicking \cup {handler} ELSE panicking
    /\ router_last' = NoEvent
    /\ UNCHANGED <<now, notRouter, inbox, received, channels, closed, route_pc, route_call,
                   visited, dead_channels, delivered, routes_started,
                   failed_pushes>>

\* EventBusService::subscribe: a new channel, its sender subscribed
SubscribeChannel(pattern) ==
    /\ Cardinality(Subscribed \cap Sinks) < Len(SinkOrder)
    /\ LET channel == SinkOrder[Cardinality(Subscribed \cap Sinks) + 1]
       IN  /\ channels' = [channels EXCEPT ![pattern] = Append(@, channel)]
           /\ pattern_of' = [pattern_of EXCEPT ![channel] = pattern]
    /\ router_last' = NoEvent
    /\ UNCHANGED <<now, notRouter, inbox, received, handlers, panicking, closed, route_pc,
                   route_call, visited, dead_channels, delivered,
                   routes_started, failed_pushes>>

\* the client goes away: the stream, and the receiver in it, is dropped
DropReceiver(channel) ==
    /\ channel \in (Subscribed \cap Sinks) \ closed
    /\ closed' = closed \cup {channel}
    /\ inbox' = [inbox EXCEPT ![channel] = <<>>]
    /\ router_last' = NoEvent
    /\ UNCHANGED <<now, notRouter, received, handlers, channels, pattern_of, panicking,
                   route_pc, route_call, visited, dead_channels, delivered,
                   routes_started, failed_pushes>>

\* route_event(event) begins: the topic of the event
RouteStart(event_type) ==
    /\ route_pc = "idle"
    /\ routes_started < MaxRoutes
    /\ routes_started' = routes_started + 1
    /\ route_call' = [id |-> routes_started + 1,
                      topic |-> EventToTopic(event_type),
                      before |-> InIndex,
                      dead_before |-> {s \in Sinks : failed_pushes[s] > 0}]
    /\ route_pc' = "handlers"
    /\ visited' = {}
    /\ dead_channels' = <<>>
    /\ delivered' = NoCopies
    /\ router_last' = NoEvent
    /\ UNCHANGED <<now, notRouter, inbox, received, handlers, channels, pattern_of, panicking,
                   closed, failed_pushes>>

\* the subscribers of an entry that the event is handed to
ReceiversOfAnyEntry(topic, pattern, subscribers) == subscribers

Receivers(topic, pattern, subscribers) ==
    IF MatchesPattern(topic, pattern) THEN subscribers ELSE <<>>

\* the copies so far, and one more for each subscriber of q
Handed(copies, q) ==
    [x \in Subscribers |->
        copies[x] + Cardinality({i \in 1..Len(q) : q[i] = x})]

\* the route_event call ends: it returns Ok(()), or a panic unwinds out of
\* it
RouteEnds(result, copies) ==
    /\ router_last' = [op |-> "route_event", id |-> route_call.id,
                       topic |-> route_call.topic,
                       result |-> result, before |-> route_call.before,
                       dead_before |-> route_call.dead_before,
                       delivered |-> copies]
    /\ route_pc' = "idle"
    /\ route_call' = IdleRoute
    /\ visited' = {}
    /\ dead_channels' = <<>>
    /\ delivered' = NoCopies

\* the handlers loop comes to an entry: each handler of a matching entry is
\* called with a clone; a panic unwinds out of route_event
RouteHandlers(pattern) ==
    /\ route_pc = "handlers"
    /\ pattern \notin visited
    /\ LET called == Receivers(route_call.topic, pattern, handlers[pattern])
           panics == {i \in 1..Len(called) : called[i] \in panicking}
       IN  IF panics # {}
           THEN LET first == CHOOSE i \in panics : \A j \in panics : i <= j
                IN  RouteEnds("panic", Handed(delivered, SubSeq(called, 1, first)))
           ELSE /\ delivered' = Handed(delivered, called)
                /\ visited' = IF visited \cup {pattern} = RouterPatterns
                              THEN {}
                              ELSE visited \cup {pattern}
                /\ route_pc' = IF visited \cup {pattern} = RouterPatterns
                               THEN "channels"
                               ELSE route_pc
                /\ router_last' = NoEvent
                /\ UNCHANGED <<route_call, dead_channels>>
    /\ UNCHANGED <<now, notRouter, inbox, received, handlers, channels, pattern_of, panicking,
                   closed, routes_started, failed_pushes>>

\* UnboundedSender::send: the event joins the channel behind those in it
SentInFront(queue, event) == <<event>> \o queue

Sent(queue, event) == Append(queue, event)

\* the channels loop comes to an entry: a clone is sent to each sender of
\* a matching entry; a send fails when the receiver is gone.  After the
\* last entry, with no dead channel to clean up, route_event returns
RouteChannels(pattern) ==
    /\ route_pc = "channels"
    /\ pattern \notin visited
    /\ LET sent == Receivers(route_call.topic, pattern, channels[pattern])
           idxs == [i \in 1..Len(sent) |-> i]
           live(i) == sent[i] \notin closed
           dead(i) == sent[i] \in closed
           failed == SelectSeq(idxs, dead)
           ok == SelectSeq(idxs, live)
           copies == Handed(delivered, [j \in 1..Len(ok) |-> sent[ok[j]]])
           found == dead_channels \o
                        [j \in 1..Len(failed) |-> <<pattern, failed[j] - 1>>]
           last_entry == visited \cup {pattern} = RouterPatterns
       IN  /\ inbox' =
                  [s \in Sinks |->
                      IF \E j \in 1..Len(ok) : sent[ok[j]] = s
                      THEN Sent(inbox[s], route_call.id)
                      ELSE inbox[s]]
           /\ failed_pushes' =
                  [s \in Sinks |->
                      failed_pushes[s] +
                          Cardinality({j \in 1..Len(failed) : sent[failed[j]] = s})]
           /\ IF last_entry /\ found = <<>>
              THEN RouteEnds("ok", copies)
              ELSE /\ delivered' = copies
                   /\ dead_channels' = found
                   /\ visited' = IF last_entry THEN {} ELSE visited \cup {pattern}
                   /\ route_pc' = IF last_entry THEN "cleanup" ELSE route_pc
                   /\ router_last' = NoEvent
                   /\ UNCHANGED route_call
    /\ UNCHANGED <<now, notRouter, received, handlers, channels, pattern_of, panicking,
                   closed, routes_started>>

\* channels.retain(|ch| !ch.is_closed())
RetainedAll(q) == q

Retained(q) ==
    LET open(ch) == ch \notin closed
    IN  SelectSeq(q, open)

\* the cleanup loop comes to an item of dead_channels: the entry of its
\* pattern is altered; after the last item route_event returns
RouteCleanup ==
    /\ route_pc = "cleanup"
    /\ dead_channels # <<>>
    /\ LET pattern == Head(dead_channels)[1]
       IN  channels' = [channels EXCEPT ![pattern] = Retained(@)]
    /\ IF Tail(dead_channels) = <<>>
       THEN RouteEnds("ok", delivered)
       ELSE /\ dead_channels' = Tail(dead_channels)
            /\ router_last' = NoEvent
            /\ UNCHANGED <<route_pc, route_call, visited, delivered>>
    /\ UNCHANGED <<now, notRouter, inbox, received, handlers, pattern_of, panicking, closed,
                   routes_started, failed_pushes>>

\* a cleanup that drops the entry in which it found a dead sender
OverlappingCleanupOfEntry(pattern) ==
    /\ Range(channels[pattern]) \cap closed # {}
    /\ channels' = [channels EXCEPT ![pattern] = <<>>]
    /\ router_last' = NoEvent
    /\ UNCHANGED <<now, notRouter, inbox, received, handlers, pattern_of, panicking, closed,
                   route_pc, route_call, visited, dead_channels, delivered,
                   routes_started, failed_pushes>>

\* the cleanup of a route_event call that overlaps the one followed: it
\* alters an entry in which it found a sender whose receiver is gone
OverlappingCleanup(pattern) ==
    /\ Range(channels[pattern]) \cap closed # {}
    /\ channels' = [channels EXCEPT ![pattern] = Retained(@)]
    /\ router_last' = NoEvent
    /\ UNCHANGED <<now, notRouter, inbox, received, handlers, pattern_of, panicking, closed,
                   route_pc, route_call, visited, dead_channels, delivered,
                   routes_started, failed_pushes>>

\* the stream of a subscriber yields the next event of its channel
Receive(channel) ==
    /\ channel \notin closed
    /\ inbox[channel] # <<>>
    /\ received' = [received EXCEPT ![channel] = Append(@, Head(inbox[channel]))]
    /\ inbox' = [inbox EXCEPT ![channel] = Tail(@)]
    /\ router_last' = NoEvent
    /\ UNCHANGED <<now, notRouter, handlers, channels, pattern_of, panicking,
                   closed, route_pc, route_call, visited, dead_channels,
                   delivered, routes_started, failed_pushes>>

RouterNext ==
    \/ \E p \in RouterPatterns, panics \in BOOLEAN : SubscribeHandler(p, panics)
    \/ \E p \in RouterPatterns : SubscribeChannel(p)
    \/ \E s \in Sinks : DropReceiver(s)
    \/ \E e \in EventTypes : RouteStart(e)
    \/ \E p \in RouterPatterns : RouteHandlers(p)
    \/ \E p \in RouterPatterns : RouteChannels(p)
    \/ RouteCleanup
    \/ \E p \in RouterPatterns : OverlappingCleanup(p)
    \/ \E s \in Sinks : Receive(s)

RouterSpec == RouterInit /\ [][RouterNext]_vars

InChannels == UNION {Range(channels[p]) : p \in RouterPatterns}

C21_RouteNeverFails ==
    router_last.op = "route_event" =>
        /\ router_last.result = "ok"
        /\ \A x \in router_last.before \ (panicking \cup closed) :
               MatchesPattern(router_last.topic, pattern_of[x])
                   => router_last.delivered[x] = 1

\* the events a receiver has read and those waiting for it, oldest first
Stream(s) == received[s] \o inbox[s]

\* C22: while its receiver is alive, the events a sender has taken lie in
\* its stream in the order the routes sent them, none twice, and the event
\* of a route that has returned after sending to it is among them
C22_SinkIsFifo ==
    \A s \in Sinks \ closed :
        /\ \A i \in 1..Len(Stream(s)), j \in 1..Len(Stream(s)) :
               i < j => Stream(s)[i] < Stream(s)[j]
        /\ (router_last.op = "route_event" /\ router_last.delivered[s] = 1)
               => router_last.id \in Range(Stream(s))

\* a receiver has read the event of one route, and the event of a later
\* route waits in its channel
C22_Witness ==
    \E s \in Sinks \ closed :
        /\ Len(received[s]) = 1
        /\ Len(inbox[s]) = 1
        /\ received[s][1] < inbox[s][1]

\* the places of a sender in the Vec of its pattern
PlacesInIndex(s) ==
    {i \in 1..Len(channels[pattern_of[s]]) : channels[pattern_of[s]][i] = s}

\* C38: whatever routes, subscriptions and receiver drops interleave, a
\* subscribed sender whose receiver is alive is in the index, once, under
\* its pattern; and the event of a route that has returned, begun after the
\* sender was subscribed and with a topic matching its pattern, is in the
\* sender's stream
C38_PruningRemovesOnlyDead ==
    \A s \in (Subscribed \cap Sinks) \ closed :
        /\ Cardinality(PlacesInIndex(s)) = 1
        /\ ( /\ router_last.op = "route_event"
             /\ router_last.result = "ok"
             /\ s \in router_last.before
             /\ MatchesPattern(router_last.topic, pattern_of[s]) )
               => router_last.id \in Range(Stream(s))

\* a route has returned after its cleanup altered the entry of a dead
\* sender that a live sender shares, and the live sender, still in the
\* index, has the event of the route
C38_Witness ==
    /\ router_last.op = "route_event"
    /\ router_last.result = "ok"
    /\ \E s \in Sinks \ closed, u \in closed :
           /\ pattern_of[s] = pattern_of[u]
           /\ {s, u} \subseteq router_last.before
           /\ failed_pushes[u] = 1
           /\ u \notin router_last.dead_before
           /\ u \notin InChannels
           /\ s \in InChannels
           /\ router_last.id \in Range(Stream(s))

(***************************************************************************)
(* The ingress of the event bus: the HTTP handlers, which take JSON, and   *)
(* the gRPC service, which takes typed events.  The service subscribes no  *)
(* handler, so route_event returns Ok(()) to each of them.                 *)
(***************************************************************************)
\* the longest batch
MaxBatch == 3

\* a field of a JSON object: absent, null, a string, an object
Missing == [kind |-> "missing", value |-> ""]

Null == [kind |-> "null", value |-> ""]

Str(v) == [kind |-> "string", value |-> v]

Object == [kind |-> "object", value |-> ""]

\* the type names of json_to_proto_event and the EventType of each
TypeNames ==
    [GAME_STATE |-> "GameState", HEARTBEAT |-> "Heartbeat",
     MONEY_CHANGED |-> "MoneyChanged", SCORE_CHANGED |-> "ScoreChanged",
     HAND_PLAYED |-> "HandPlayed", CARDS_DISCARDED |-> "CardsDiscarded",
     JOKERS_CHANGED |-> "JokersChanged", ROUND_CHANGED |-> "RoundChanged",
     PHASE_CHANGED |-> "PhaseChanged", ROUND_COMPLETE |-> "RoundComplete",
     CONNECTION_TEST |-> "ConnectionTest"]

KnownTypes == {TypeNames[n] : n \in DOMAIN TypeNames}

\* the envelopes posted as single events
Envelopes ==
    [type : {Missing, Null, Str(""), Str("INVALID_TYPE"), Str("game_state")}
                \cup {Str(n) : n \in DOMAIN TypeNames},
     source : {Missing, Null, Str(""), Str("test")},
     payload : {Missing, Null, Object}]

\* the envelopes posted in batches
BatchEnvelopes ==
    [type : {Missing, Str(""), Str("INVALID_TYPE"), Str("HEARTBEAT"),
             Str("GAME_STATE")},
     source : {Str(""), Str("test")},
     payload : {Object}]

\* the typed events a gRPC client publishes: the type field is an i32 that
\* is an EventType, zero, or no EventType at all
ProtoEvents ==
    [type : KnownTypes \cup {"Unspecified", "Unrecognized"},
     source : {"", "test"}]

BatchProtoEvents ==
    {[type |-> "GameState", source |-> "test"],
     [type |-> "Heartbeat", source |-> ""],
     [type |-> "Unspecified", source |-> "test"]}

SeqsUpTo(S, n) == UNION {[1..k -> S] : k \in 0..n}

IngressRequests ==
    [op : {"handle_single_event"}, well_formed : {TRUE}, body : Envelopes]
        \cup [op : {"handle_batch_events"}, well_formed : BOOLEAN,
              body : SeqsUpTo(BatchEnvelopes, MaxBatch)]
        \cup [op : {"publish_event"}, well_formed : {TRUE}, body : ProtoEvents]
        \cup [op : {"publish_batch"}, well_formed : {TRUE},
              body : SeqsUpTo(BatchProtoEvents, MaxBatch)]

IngressInit ==
    /\ now = 0
    /\ AllocatorOff
    /\ BucketOff
    /\ WindowOff
    /\ TiersOff
    /\ MatchOff
    /\ RouterOff
    /\ ServerOff
    /\ RngOff
    /\ ingress_request \in IngressRequests
    /\ ingress_last = NoEvent

NoProtoEvent == [type |-> "Unspecified", source |-> ""]

\* Json<JsonEvent>: serde refuses an envelope whose type or source is not
\* a string, or that has no payload
FromJson(envelope) ==
    IF \/ envelope.type.kind # "string"
       \/ envelope.source.kind # "string"
       \/ envelope.payload.kind = "missing"
    THEN [ok |-> FALSE, event_type |-> "", source |-> ""]
    ELSE [ok |-> TRUE, event_type |-> envelope.type.value,
          source |-> envelope.source.value]

\* json_to_proto_event
JsonToProtoEventAnySource(json_event) ==
    IF json_event.event_type = ""
    THEN [ok |-> FALSE, error |-> "Event type cannot be empty",
          event |-> NoProtoEvent]
    ELSE IF json_event.event_type \notin DOMAIN TypeNames
    THEN [ok |-> FALSE, error |-> "Unknown event type", event |-> NoProtoEvent]
    ELSE [ok |-> TRUE, error |-> "",
          event |-> [type |-> TypeNames[json_event.event_type],
                     source |-> json_event.source]]

JsonToProtoEvent(json_event) ==
    IF json_event.event_type = ""
    THEN [ok |-> FALSE, error |-> "Event type cannot be empty",
          event |-> NoProtoEvent]
    ELSE IF json_event.source = ""
    THEN [ok |-> FALSE, error |-> "Event source cannot be empty",
          event |-> NoProtoEvent]
    ELSE IF json_event.event_type \notin DOMAIN TypeNames
    THEN [ok |-> FALSE, error |-> "Unknown event type", event |-> NoProtoEvent]
    ELSE [ok |-> TRUE, error |-> "",
          event |-> [type |-> TypeNames[json_event.event_type],
                     source |-> json_event.source]]

\* the request answered: the events handed to route_event in order, the
\* indices reported in the response, its status
Answered(status, error, errors, routed) ==
    [op |-> ingress_request.op, status |-> status, error |-> error,
     errors |-> errors, routed |-> routed]

\* handle_single_event
HandleSingleEvent ==
    /\ ingress_last = NoEvent
    /\ ingress_request.op = "handle_single_event"
    /\ LET json == FromJson(ingress_request.body)
           proto == JsonToProtoEvent(json)
       IN  ingress_last' =
               IF ~json.ok THEN Answered("error", "Invalid JSON", <<>>, <<>>)
               ELSE IF ~proto.ok
               THEN Answered("error", proto.error, <<>>, <<>>)
               ELSE Answered("ok", "", <<>>, <<proto.event>>)
    /\ UNCHANGED <<now, notIngress, ingress_request>>

\* the loop of handle_batch_events from entry idx: the events routed and
\* the indices of the errors
RECURSIVE BatchLoop(_, _, _, _)
BatchLoop(events, idx, routed, errors) ==
    IF idx > Len(events)
    THEN [routed |-> routed, errors |-> errors]
    ELSE LET proto == JsonToProtoEvent(FromJson(events[idx]))
         IN  IF proto.ok
             THEN BatchLoop(events, idx + 1, Append(routed, proto.event), errors)
             ELSE BatchLoop(events, idx + 1, routed, Append(errors, idx - 1))

\* handle_batch_events: the body is refused as a whole when it is no
\* BatchEventRequest, that is when one of its entries is no JsonEvent
HandleBatchEvents ==
    /\ ingress_last = NoEvent
    /\ ingress_request.op = "handle_batch_events"
    /\ LET events == ingress_request.body
           done == BatchLoop(events, 1, <<>>, <<>>)
       IN  ingress_last' =
               IF \/ ~ingress_request.well_formed
                  \/ \E i \in 1..Len(events) : ~FromJson(events[i]).ok
               THEN Answered("error", "Invalid JSON", <<>>, <<>>)
               ELSE IF done.errors = <<>>
               THEN Answered("ok", "", <<>>, done.routed)
               ELSE Answered("error", "Processed", done.errors, done.routed)
    /\ UNCHANGED <<now, notIngress, ingress_request>>

\* EventBusService::publish_event
PublishEvent ==
    /\ ingress_last = NoEvent
    /\ ingress_request.op = "publish_event"
    /\ ingress_last' = Answered("ok", "", <<>>, <<ingress_request.body>>)
    /\ UNCHANGED <<now, notIngress, ingress_request>>

\* EventBusService::publish_batch
PublishBatch ==
    /\ ingress_last = NoEvent
    /\ ingress_request.op = "publish_batch"
    /\ ingress_last' = Answered("ok", "", <<>>, ingress_request.body)
    /\ UNCHANGED <<now, notIngress, ingress_request>>

IngressNext ==
    \/ HandleSingleEvent
    \/ HandleBatchEvents
    \/ PublishEvent
    \/ PublishBatch

IngressSpec == IngressInit /\ [][IngressNext]_vars

\* an envelope the bus must refuse: its type is missing, empty or unknown,
\* or its source is missing or empty
Invalid(envelope) ==
    \/ envelope.type.kind # "string"
    \/ envelope.type.value \notin DOMAIN TypeNames
    \/ envelope.source.kind # "string"
    \/ envelope.source.value = ""

C24_RoutedEventsWellFormed ==
    ingress_last.op # "none" =>
        \A i \in 1..Len(ingress_last.routed) :
            /\ ingress_last.routed[i].type \in KnownTypes
            /\ ingress_last.routed[i].source # ""

\* the typed events of the entries of a batch that are not refused, in the
\* order of the batch, and the indices of the others
RECURSIVE WellFormedEntries(_)
WellFormedEntries(events) ==
    IF events = <<>> THEN <<>>
    ELSE (IF Invalid(Head(events)) \/ Head(events).payload.kind = "missing"
          THEN <<>>
          ELSE <<[type |-> TypeNames[Head(events).type.value],
                  source |-> Head(events).source.value]>>)
         \o WellFormedEntries(Tail(events))

InvalidIndices(events) ==
    {i - 1 : i \in {j \in 1..Len(events) :
                       Invalid(events[j]) \/ events[j].payload.kind = "missing"}}

\* C25: a batch routes its well-formed entries once each in the order of
\* the batch, reports the index of each of the others, and is answered ok
\* exactly when there is no error
C25_BatchRoutesWellFormed ==
    (ingress_last.op = "handle_batch_events" /\ ingress_request.well_formed) =>
        /\ ingress_last.routed = WellFormedEntries(ingress_request.body)
        /\ Range(ingress_last.errors) = InvalidIndices(ingress_request.body)
        /\ ingress_last.status = "ok" <=> InvalidIndices(ingress_request.body) = {}

(***************************************************************************)
(* The HTTP server of the resource coordinator: POST /allocate.  Requests  *)
(* are followed one at a time, each from its rate limit check to its       *)
(* response, over the state of the allocator; the clock stands still, so   *)
(* that no lease expires and the sweep at the head of allocate removes     *)
(* nothing.                                                                *)
(***************************************************************************)
\* the tokens the "basic" tier has left when the first request arrives
MaxRequests == 3

\* resources.default_duration_secs
DefaultDurationSecs == 300

\* Option
None == <<>>

Some(x) == <<x>>

\* AllocateRequest (priority is passed on and read nowhere; duration_secs is
\* left out of the request, so that the default applies)
AllocateRequests ==
    [component_id : Components,
     resource_type : {"gpu", "cpu", "memory", "api", "disk"},
     cpu_cores : {None, Some(3)},
     memory_mb : {None, Some(6144)},
     api_name : {None} \cup {Some(n) : n \in ApiNames}]

\* start_server, then any history that leaves no lease: the tier every
\* client falls in has some of its tokens left, the api has all, one or
\* none of its permits left
ServerInit ==
    /\ now = 0
    /\ workload = [tasks |-> {}, components |-> Components, kinds |-> Kinds]
    /\ overflow_checks = FALSE
    /\ gpu_semaphore = GpuPermits
    /\ cpu_allocations = [c \in Components |-> Absent]
    /\ memory_allocations = [c \in Components |-> Absent]
    /\ api_limiters \in [ApiNames -> {Absent, <<0>>, <<1>>}]
    /\ active_allocations = <<>>
    /\ cpu_lock = NoTask
    /\ memory_lock = NoTask
    /\ active_lock = NoTask
    /\ gpu_tasks = EmptyBag
    /\ api_tasks = EmptyBag
    /\ pc = [t \in Tasks |-> "idle"]
    /\ call = [t \in Tasks |-> IdleCall]
    /\ expired = [t \in Tasks |-> <<>>]
    /\ last = NoEvent
    /\ BucketOff
    /\ WindowOff
    /\ TiersOff
    /\ MatchOff
    /\ RouterOff
    /\ IngressOff
    /\ RngOff
    /\ basic_tokens \in 0..MaxRequests
    /\ server_last = NoEvent

NoResourceType == [kind |-> "none", arg |-> <<>>]

\* the match on request.resource_type: the ResourceType, or the message of
\* the 400 response
ParseResourceType(request) ==
    CASE request.resource_type = "gpu" -> [type |-> Gpu, message |-> ""]
      [] request.resource_type = "cpu" ->
             IF request.cpu_cores = None
             THEN [type |-> NoResourceType,
                   message |-> "CPU allocation requires cpu_cores parameter"]
             ELSE [type |-> CpuCores(U32(request.cpu_cores[1])), message |-> ""]
      [] request.resource_type = "memory" ->
             IF request.memory_mb = None
             THEN [type |-> NoResourceType,
                   message |-> "Memory allocation requires memory_mb parameter"]
             ELSE [type |-> Memory(BytesOfMb(request.memory_mb[1])),
                   message |-> ""]
      [] request.resource_type = "api" ->
             IF request.api_name = None
             THEN [type |-> NoResourceType,
                   message |-> "API allocation requires api_name parameter"]
             ELSE [type |-> ApiQuota(request.api_name[1]), message |-> ""]
      [] OTHER -> [type |-> NoResourceType, message |-> "Unknown resource type"]

\* ResourceAllocator::allocate run from call to return with no other caller:
\* its result, the message of its error, and the state it leaves
AllocateOutcome(component_id, resource_type) ==
    LET lease == [component_id |-> component_id,
                  resource_type |-> resource_type,
                  expires_at |-> now + DefaultDurationSecs]
        swept == RetainUnexpired(active_allocations, now)
        refused == [ok |-> FALSE, message |-> "", gpu |-> gpu_semaphore,
                    cpu |-> cpu_allocations, memory |-> memory_allocations,
                    api |-> api_limiters, active |-> swept,
                    gpu_tasks |-> gpu_tasks, api_tasks |-> api_tasks]
        tracked == [refused EXCEPT !.ok = TRUE, !.active = Append(swept, lease)]
    IN  CASE resource_type.kind = "Gpu" ->
                 IF gpu_semaphore = 0
                 THEN [refused EXCEPT !.message = "GPU not available"]
                 ELSE [tracked EXCEPT
                          !.gpu = gpu_semaphore - 1,
                          !.gpu_tasks = gpu_tasks (+) SetToBag({GpuTask(
                              component_id, now + DefaultDurationSecs)})]
          [] resource_type.kind = "CpuCores" ->
                 IF Admission(cpu_allocations, resource_type.arg,
                              U32(CpuCapacity), 2) = "ok"
                 THEN [tracked EXCEPT !.cpu = Insert(cpu_allocations,
                                           component_id, resource_type.arg)]
                 ELSE [refused EXCEPT
                          !.message = "Not enough CPU cores available"]
          [] resource_type.kind = "Memory" ->
                 IF Admission(memory_allocations, resource_type.arg,
                              MemoryPool, 4) = "ok"
                 THEN [tracked EXCEPT !.memory = Insert(memory_allocations,
                                           component_id, resource_type.arg)]
                 ELSE [refused EXCEPT
                          !.message = "Not enough memory available"]
          [] resource_type.kind = "ApiQuota" ->
                 LET api_name == resource_type.arg[1]
                     permits == IF api_limiters[api_name] = Absent
                                THEN ApiPermits
                                ELSE api_limiters[api_name][1]
                 IN  IF permits = 0
                     THEN [refused EXCEPT
                              !.message = "API quota exhausted",
                              !.api = Insert(api_limiters, api_name, <<0>>)]
                     ELSE [refused EXCEPT
                              !.ok = TRUE,
                              !.api = Insert(api_limiters, api_name,
                                             <<permits - 1>>),
                              !.api_tasks = api_tasks (+) SetToBag(
                                  {[api_name |-> api_name,
                                    wake_at |-> now + ApiHoldSecs]})]

\* the response to a request: its status and the message of its body
Responded(request, status, message) ==
    [op |-> "handle_allocate", request |-> request, status |-> status,
     message |-> message]

\* handle_allocate
HandleAllocate(request) ==
    LET parsed == ParseResourceType(request)
        done == AllocateOutcome(request.component_id, parsed.type)
    IN  IF basic_tokens < 1
        THEN /\ server_last' = Responded(request, 429, "Rate limit exceeded")
             /\ UNCHANGED <<basic_tokens, gpu_semaphore, cpu_allocations,
                            memory_allocations, api_limiters,
                            active_allocations, gpu_tasks, api_tasks>>
        ELSE /\ basic_tokens' = basic_tokens - 1
             /\ IF parsed.type = NoResourceType
                THEN /\ server_last' = Responded(request, 400, parsed.message)
                     /\ UNCHANGED <<gpu_semaphore, cpu_allocations,
                                    memory_allocations, api_limiters,
                                    active_allocations, gpu_tasks, api_tasks>>
                ELSE /\ gpu_semaphore' = done.gpu
                     /\ cpu_allocations' = done.cpu
                     /\ memory_allocations' = done.memory
                     /\ api_limiters' = done.api
                     /\ active_allocations' = done.active
                     /\ gpu_tasks' = done.gpu_tasks
                     /\ api_tasks' = done.api_tasks
                     /\ server_last' =
                            IF done.ok
                            THEN Responded(request, 200,
                                           "Resource allocated successfully")
                            ELSE Responded(request, 409, done.message)

ServerNext ==
    /\ \E request \in AllocateRequests : HandleAllocate(request)
    /\ UNCHANGED <<now, notServer, workload, overflow_checks, cpu_lock,
                   memory_lock, active_lock, pc, call, expired, last>>

ServerSpec == ServerInit /\ [][ServerNext]_vars

\* the component of the request answered last holds what it asked for: a
\* lease in the active list, or a permit of the api
HoldsLease(request) ==
    IF request.resource_type = "api"
    THEN \E task \in BagToSet(api_tasks) : task.api_name = request.api_name[1]
    ELSE \E i \in 1..Len(active_allocations) :
             /\ active_allocations[i].component_id = request.component_id
             /\ active_allocations[i].resource_type
                    = ParseResourceType(request).type

\* C26: POST /allocate answers 200 only when the resource was leased, 400
\* when a parameter of the kind is missing or the resource type is unknown,
\* 409 when there is no capacity, and 429 when a quota is exhausted, that of
\* the rate limiter or that of the api asked for
C26_AllocateStatus ==
    server_last.op = "handle_allocate" =>
        /\ server_last.status = 200 => HoldsLease(server_last.request)
        /\ server_last.message \in
               {"CPU allocation requires cpu_cores parameter",
                "Memory allocation requires memory_mb parameter",
                "API allocation requires api_name parameter",
                "Unknown resource type"} => server_last.status = 400
        /\ server_last.message \in
               {"GPU not available", "Not enough CPU cores available",
                "Not enough memory available"} => server_last.status = 409
        /\ server_last.message \in
               {"Rate limit exceeded", "API quota exhausted"}
               => server_last.status = 429

(***************************************************************************)
(* The deterministic RNG of the Balatro emulator.  A u64 is a number below *)
(* HashRange; an f64 in [0, 1) is a number of RandomSteps-ths; the hashes  *)
(* and the ChaCha stream are functions of what the code feeds them.        *)
(***************************************************************************)
\* the operations run on one instance
MaxOps == 2

\* the values of a u64 hash
HashRange == 251

\* the values rng.gen::<f64>() takes in [0, 1): k / RandomSteps
RandomSteps == 8

\* the bytes of the strings hashed
Utf8 ==
    [shop |-> <<115, 104>>, joker |-> <<106, 111>>, TUTORIAL |-> <<84, 85>>]

RngKeys == {"shop", "joker"}

\* SeedType
Numeric(n) == [kind |-> "Numeric", value |-> n]

String(str) == [kind |-> "String", value |-> str]

Seeds == {Numeric(12345 % HashRange), String("TUTORIAL")}

Instances == {"a", "b"}

NoRng == <<>>

\* DefaultHasher::new(): SipHash with the keys 0, 0, in every instance
RandomStateNew(instance) == IF instance = "a" THEN <<0, 0>> ELSE <<1, 1>>

DefaultHasherNew(instance) == <<0, 0>>

\* Hasher::finish after the writes
RECURSIVE Finish(_, _)
Finish(h, writes) ==
    IF writes = <<>> THEN h
    ELSE Finish((h * 31 + Head(writes) + 1) % HashRange, Tail(writes))

\* u64::hash writes the number, str::hash the bytes and 0xff
HashU64(n) == <<n>>

HashStr(str) == Utf8[str] \o <<255>>

Hashed(instance, writes) ==
    Finish(DefaultHasherNew(instance)[1] * 7 + DefaultHasherNew(instance)[2] + 17,
           writes)

\* PseudorandomState::hash_seed
HashSeed(instance, seed) ==
    Hashed(instance, IF seed.kind = "Numeric" THEN HashU64(seed.value)
                     ELSE HashStr(seed.value))

\* BalatroRng::new
New(instance, seed) ==
    [base_seed |-> HashSeed(instance, seed),
     key_seeds |-> [k \in RngKeys |-> Absent],
     global_seed |-> seed]

\* BalatroRng::pseudohash
Pseudohash(instance, str) == Hashed(instance, HashStr(str))

\* the n-th word of ChaCha8Rng::seed_from_u64(seed)
ChaCha(seed, n) == (seed * 17 + n * 29 + 5) % HashRange

\* the n-th draw as rng.gen::<f64>(): the numerator over RandomSteps
GenF64(seed, n) == ChaCha(seed, n) % RandomSteps

\* the n-th draw as rng.gen_range(low..=high)
GenRange(seed, n, low, high) == low + (ChaCha(seed, n) % (high - low + 1))

\* the current seed of a key: key_seeds.get(key).copied().unwrap_or(0)
CurrentSeed(state, key) ==
    IF state.key_seeds[key] = Absent THEN 0 ELSE state.key_seeds[key][1]

\* PseudorandomState::pseudoseed: the seed returned and the state left; the
\* counter is advanced with wrapping_add
PseudoseedAnyKey(instance, state, key) ==
    LET current_seed ==
            CurrentSeed(state, "shop") + CurrentSeed(state, "joker")
    IN  [value |-> Hashed(instance, HashU64(state.base_seed) \o HashStr(key)
                                        \o HashU64(current_seed)),
         state |-> [state EXCEPT !.key_seeds[key] =
                        <<(CurrentSeed(state, key) + 1) % HashRange>>]]

PseudoseedOf(instance, state, key) ==
    LET current_seed == CurrentSeed(state, key)
    IN  [value |-> Hashed(instance, HashU64(state.base_seed) \o HashStr(key)
                                        \o HashU64(current_seed)),
         state |-> [state EXCEPT !.key_seeds[key] =
                        <<(current_seed + 1) % HashRange>>]]

\* an f64 as a fraction, an integer-valued one over 1
F64(num, den) == <<num, den>>

\* BalatroRng::pseudorandom
PseudorandomOf(instance, seed, min, max) ==
    LET numeric_seed == IF seed.kind = "Numeric" THEN seed.value
                        ELSE Pseudohash(instance, seed.value)
        random_val == GenF64(numeric_seed, 1)
    IN  IF min # None /\ max # None
        THEN LET range == max[1] - min[1] + 1
             IN  F64(Min(min[1] + ((random_val * range) \div RandomSteps),
                             max[1]), 1)
        ELSE IF min # None
        THEN LET range == min[1]
             IN  F64(Min(1 + ((random_val * range) \div RandomSteps),
                             min[1]), 1)
        ELSE F64(random_val, RandomSteps)

\* BalatroRng::pseudorandom_element
PseudorandomElementOf(collection, seed) ==
    IF collection = <<>> THEN None
    ELSE Some(collection[GenRange(seed, 1, 0, Len(collection) - 1) + 1])

\* list.swap(i, j)
SwapAtOverwriting(list, i, j) == [list EXCEPT ![i] = list[j]]

SwapAt(list, i, j) == [list EXCEPT ![i] = list[j], ![j] = list[i]]

\* the loop of pseudoshuffle from index i (counted from 0) down, its draws
\* from the n-th on
RECURSIVE FisherYates(_, _, _, _)
FisherYates(list, i, seed, n) ==
    IF i < 1 THEN list
    ELSE FisherYates(SwapAt(list, i + 1, GenRange(seed, n, 0, i) + 1),
                     i - 1, seed, n + 1)

\* BalatroRng::pseudoshuffle: the list it leaves
PseudoshuffleOf(list, seed) ==
    IF Len(list) <= 1 THEN list
    ELSE FisherYates(list, Len(list) - 1, seed, 1)

\* BalatroRng::roll_die: gen_range panics on the empty range 1..=0
RollDieOf(sides, seed) ==
    IF sides = 0 THEN "panic" ELSE GenRange(seed, 1, 1, sides)

\* BalatroRng::probability_check, the probability in RandomSteps-ths
ProbabilityCheckOf(probability, seed) == GenF64(seed, 1) < probability

RECURSIVE TotalWeight(_)
TotalWeight(choices) ==
    IF choices = <<>> THEN 0
    ELSE Head(choices).weight + TotalWeight(Tail(choices))

\* the loop of weighted_choice: target in RandomSteps-ths
RECURSIVE ChoiceFrom(_, _, _)
ChoiceFrom(choices, idx, target) ==
    IF idx > Len(choices) THEN Some(choices[Len(choices)].item)
    ELSE IF target - choices[idx].weight * RandomSteps <= 0
    THEN Some(choices[idx].item)
    ELSE ChoiceFrom(choices, idx + 1,
                    target - choices[idx].weight * RandomSteps)

\* BalatroRng::weighted_choice
WeightedChoiceOf(choices, seed) ==
    IF choices = <<>> THEN None
    ELSE IF TotalWeight(choices) <= 0 THEN None
    ELSE ChoiceFrom(choices, 1, GenF64(seed, 1) * TotalWeight(choices))

\* two instances made by new(seed) with one seed
RngInit ==
    /\ now = 0
    /\ AllocatorOff
    /\ BucketOff
    /\ WindowOff
    /\ TiersOff
    /\ MatchOff
    /\ RouterOff
    /\ IngressOff
    /\ ServerOff
    /\ \E seed \in Seeds : rng = [i \in Instances |-> New(i, seed)]
    /\ rng_log = [i \in Instances |-> <<>>]
    /\ rng_saved = <<>>
    /\ rng_input = <<>>

\* an operation has run on an instance: what it returned, the state it left
Ran(i, op, args, output, state) ==
    /\ rng[i] # NoRng
    /\ Len(rng_log[i]) < MaxOps
    /\ rng' = [rng EXCEPT ![i] = state]
    /\ rng_log' = [rng_log EXCEPT
           ![i] = Append(@, [op |-> op, args |-> args, output |-> output])]
    /\ UNCHANGED <<now, notRng, rng_saved, rng_input>>

Pseudoseed(i, key) ==
    /\ rng[i] # NoRng
    /\ Ran(i, "pseudoseed", key, PseudoseedOf(i, rng[i], key).value,
           PseudoseedOf(i, rng[i], key).state)

\* pseudorandom, had it drawn its seed from the state
PseudorandomAdvancing(i, seed, min, max) ==
    /\ rng[i] # NoRng
    /\ Ran(i, "pseudorandom", <<seed, min, max>>,
           PseudorandomOf(i, seed, min, max),
           PseudoseedOf(i, rng[i], "shop").state)

Pseudorandom(i, seed, min, max) ==
    /\ rng[i] # NoRng
    /\ Ran(i, "pseudorandom", <<seed, min, max>>,
            PseudorandomOf(i, seed, min, max), rng[i])

PseudorandomElement(i, collection, seed) ==
    /\ rng[i] # NoRng
    /\ Ran(i, "pseudorandom_element", <<collection, seed>>,
            PseudorandomElementOf(collection, seed), rng[i])

Pseudoshuffle(i, list, seed) ==
    /\ rng[i] # NoRng
    /\ Ran(i, "pseudoshuffle", <<list, seed>>, PseudoshuffleOf(list, seed), rng[i])

RollDie(i, sides, seed) ==
    /\ rng[i] # NoRng
    /\ Ran(i, "roll_die", <<sides, seed>>, RollDieOf(sides, seed), rng[i])

ProbabilityCheck(i, probability, seed) ==
    /\ rng[i] # NoRng
    /\ Ran(i, "probability_check", <<probability, seed>>,
            ProbabilityCheckOf(probability, seed), rng[i])

WeightedChoice(i, choices, seed) ==
    /\ rng[i] # NoRng
    /\ Ran(i, "weighted_choice", <<choices, seed>>,
            WeightedChoiceOf(choices, seed), rng[i])

\* the operations callers run, with the arguments of the unit tests
Operations(i) ==
    \/ \E key \in RngKeys : Pseudoseed(i, key)
    \/ Pseudorandom(i, String("TUTORIAL"), Some(1), Some(10))
    \/ PseudorandomElement(i, <<"a", "b", "c">>, 9)
    \/ Pseudoshuffle(i, <<1, 2, 3>>, 9)
    \/ RollDie(i, 6, 9)
    \/ ProbabilityCheck(i, RandomSteps \div 2, 9)
    \/ WeightedChoice(i, <<[item |-> "rare", weight |-> 1],
                           [item |-> "common", weight |-> 10]>>, 9)

RngNext == \E i \in Instances : Operations(i)

RngSpec == RngInit /\ [][RngNext]_vars

Calls(log) == [j \in 1..Len(log) |-> <<log[j].op, log[j].args>>]

Outputs(log) == [j \in 1..Len(log) |-> log[j].output]

KeyStream(i, key) ==
    LET IsKey(entry) == entry.op = "pseudoseed" /\ entry.args = key
    IN  Outputs(SelectSeq(rng_log[i], IsKey))

\* C28: the n-th pseudoseed(key) returns the same seed on two instances of
\* one seed, whatever calls on other keys come before it on either
C28_KeysIndependent ==
    \A key \in RngKeys :
        \A n \in 1..Min(Len(KeyStream("a", key)), Len(KeyStream("b", key))) :
            KeyStream("a", key)[n] = KeyStream("b", key)[n]

\* the two keys have been called in one order on a, in the other on b
C28_Witness ==
    /\ Calls(rng_log["a"]) = <<(<<"pseudoseed", "shop">>), (<<"pseudoseed", "joker">>)>>
    /\ Calls(rng_log["b"]) = <<(<<"pseudoseed", "joker">>), (<<"pseudoseed", "shop">>)>>
    /\ KeyStream("a", "joker") = KeyStream("b", "joker")

\* the calls of an instance that are not pseudoseed
Explicit(i) ==
    LET NotPseudoseed(entry) == entry.op # "pseudoseed"
    IN  SelectSeq(rng_log[i], NotPseudoseed)

\* C31: only pseudoseed advances the RNG: the counter of every key is the
\* number of pseudoseed calls on it, base_seed and global_seed are what new
\* made them, whatever other operations ran; and an operation with an
\* explicit seed returns the same result each time it is repeated
C31_OnlyPseudoseedAdvances ==
    \A i \in Instances :
        /\ \A key \in RngKeys :
               CurrentSeed(rng[i], key) = Len(KeyStream(i, key))
        /\ rng[i].global_seed \in Seeds
        /\ rng[i].global_seed = rng["a"].global_seed
        /\ rng[i].base_seed = HashSeed(i, rng[i].global_seed)
        /\ \A m \in 1..Len(Explicit(i)), n \in 1..Len(Explicit(i)) :
               (Explicit(i)[m].op = Explicit(i)[n].op
                    /\ Explicit(i)[m].args = Explicit(i)[n].args)
                   => Explicit(i)[m].output = Explicit(i)[n].output

\* pseudoshuffle has run twice with one seed and one list, after which no key
\* has a counter
C31_Witness ==
    /\ Len(rng_log["a"]) = 2
    /\ rng_log["a"][1].op = "pseudoshuffle"
    /\ rng_log["a"][2] = rng_log["a"][1]
    /\ rng["a"].key_seeds = [k \in RngKeys |-> Absent]

(***************************************************************************)
(* Saving and restoring: state() cloned, or written as JSON and read back, *)
(* then from_state.                                                        *)
(***************************************************************************)
\* serde_json::to_string of a PseudorandomState: the map holds the keys that
\* have an entry, the seed is tagged with its variant
ToJson(state) ==
    [base_seed |-> state.base_seed,
     key_seeds |-> {<<k, state.key_seeds[k][1]>> : k \in Keys(state.key_seeds)},
     global_seed |-> IF state.global_seed.kind = "Numeric"
                     THEN [Numeric |-> state.global_seed.value]
                     ELSE [String |-> state.global_seed.value]]

\* serde_json::from_str
StateFromJsonNoSeeds(json) ==
    [base_seed |-> json.base_seed,
     key_seeds |-> [k \in RngKeys |-> Absent],
     global_seed |-> IF "Numeric" \in DOMAIN json.global_seed
                     THEN Numeric(json.global_seed.Numeric)
                     ELSE String(json.global_seed.String)]

StateFromJson(json) ==
    [base_seed |-> json.base_seed,
     key_seeds |->
         [k \in RngKeys |->
             IF \E pair \in json.key_seeds : pair[1] = k
             THEN <<(CHOOSE pair \in json.key_seeds : pair[1] = k)[2]>>
             ELSE Absent],
     global_seed |-> IF "Numeric" \in DOMAIN json.global_seed
                     THEN Numeric(json.global_seed.Numeric)
                     ELSE String(json.global_seed.String)]

\* BalatroRng::from_state
FromState(state) == state

\* one instance made by new(seed); the other is made from its snapshot
SaveInit ==
    /\ now = 0
    /\ AllocatorOff
    /\ BucketOff
    /\ WindowOff
    /\ TiersOff
    /\ MatchOff
    /\ RouterOff
    /\ IngressOff
    /\ ServerOff
    /\ \E seed \in Seeds :
           rng = [i \in Instances |-> IF i = "a" THEN New(i, seed) ELSE NoRng]
    /\ rng_log = [i \in Instances |-> <<>>]
    /\ rng_saved = <<>>
    /\ rng_input = <<>>

\* rng.state().clone()
CloneState ==
    /\ rng_saved = <<>>
    /\ rng_saved' = [kind |-> "clone", snapshot |-> rng["a"],
                     at |-> Len(rng_log["a"])]
    /\ UNCHANGED <<now, notRng, rng, rng_log, rng_input>>

\* serde_json::to_string(rng.state())
SerializeState ==
    /\ rng_saved = <<>>
    /\ rng_saved' = [kind |-> "json", snapshot |-> ToJson(rng["a"]),
                     at |-> Len(rng_log["a"])]
    /\ UNCHANGED <<now, notRng, rng, rng_log, rng_input>>

\* BalatroRng::from_state of the clone, or of serde_json::from_str of the
\* text
Restore ==
    /\ rng_saved # <<>>
    /\ rng["b"] = NoRng
    /\ rng' = [rng EXCEPT !["b"] =
                  FromState(IF rng_saved.kind = "json"
                            THEN StateFromJson(rng_saved.snapshot)
                            ELSE rng_saved.snapshot)]
    /\ UNCHANGED <<now, notRng, rng_log, rng_saved, rng_input>>

\* the operations run around a save: the one that advances the state, and
\* one that leaves it alone
SaveOperations(i) ==
    \/ \E key \in RngKeys : Pseudoseed(i, key)
    \/ Pseudorandom(i, String("TUTORIAL"), Some(1), Some(10))

SaveNext ==
    \/ \E i \in Instances : SaveOperations(i)
    \/ CloneState
    \/ SerializeState
    \/ Restore

SaveSpec == SaveInit /\ [][SaveNext]_vars

\* what the original has run since the snapshot was taken
SinceSave == SubSeq(rng_log["a"], rng_saved.at + 1, Len(rng_log["a"]))

\* C29: an instance rebuilt by from_state from a snapshot returns, for the
\* operations the original ran after the snapshot, the outputs the original
\* returned
C29_RestoreContinues ==
    rng["b"] # NoRng =>
        \A n \in 0..Min(Len(SinceSave), Len(rng_log["b"])) :
            SubSeq(Calls(SinceSave), 1, n) = SubSeq(Calls(rng_log["b"]), 1, n)
                => SubSeq(Outputs(SinceSave), 1, n)
                       = SubSeq(Outputs(rng_log["b"]), 1, n)

\* the original ran pseudoseed on a key, was saved, ran it again; the
\* restored instance has run it too
C29_Witness ==
    /\ rng["b"] # NoRng
    /\ rng_saved.kind = "json"
    /\ rng_saved.at = 1
    /\ rng_log["a"][1].op = "pseudoseed"
    /\ Len(SinceSave) = 1
    /\ Len(rng_log["b"]) >= 1
    /\ rng_log["b"][1].op = "pseudoseed"
    /\ Calls(SinceSave)[1] = Calls(rng_log["b"])[1]
    /\ rng_log["b"][1].args = rng_log["a"][1].args

(***************************************************************************)
(* One call of pseudorandom with arguments of every shape.                 *)
(***************************************************************************)
\* the largest magnitude of min and max
MaxRange == 3

PseudorandomInputs ==
    [seed : {Numeric(n) : n \in 0..(RandomSteps - 1)} \cup {String("TUTORIAL")},
     min : {None} \cup {Some(n) : n \in (0 - MaxRange)..MaxRange},
     max : {None} \cup {Some(n) : n \in (0 - MaxRange)..MaxRange}]

PseudorandomInit ==
    /\ now = 0
    /\ AllocatorOff
    /\ BucketOff
    /\ WindowOff
    /\ TiersOff
    /\ MatchOff
    /\ RouterOff
    /\ IngressOff
    /\ ServerOff
    /\ rng = [i \in Instances |-> IF i = "a" THEN New(i, Numeric(0)) ELSE NoRng]
    /\ rng_log = [i \in Instances |-> <<>>]
    /\ rng_saved = <<>>
    /\ rng_input \in PseudorandomInputs

PseudorandomCall ==
    /\ rng_log["a"] = <<>>
    /\ Pseudorandom("a", rng_input.seed, rng_input.min, rng_input.max)

PseudorandomNext == PseudorandomCall

PseudorandomSpec == PseudorandomInit /\ [][PseudorandomNext]_vars

\* C30: pseudorandom with max below min is refused as BadRequest and returns
\* no value; with min at most max it returns an integer from min to max;
\* with min alone, at least 1, an integer from 1 to min
C30_PseudorandomRange ==
    rng_log["a"] # <<>> =>
        LET min == rng_input.min
            max == rng_input.max
            output == rng_log["a"][1].output
        IN  /\ (min # None /\ max # None /\ max[1] < min[1])
                => output = "BadRequest"
            /\ (min # None /\ max # None /\ min[1] <= max[1])
                => (output[2] = 1 /\ min[1] <= output[1] /\ output[1] <= max[1])
            /\ (min # None /\ max = None /\ min[1] >= 1)
                => (output[2] = 1 /\ 1 <= output[1] /\ output[1] <= min[1])

(***************************************************************************)
(* One call of pseudoseed on a state of any counters: those a game has     *)
(* reached, and those set_key_seed or a loaded save put there, the largest *)
(* u64 among them.                                                         *)
(***************************************************************************)
KeySeedValues == {Absent, <<0>>, <<1>>, <<2>>, <<HashRange - 1>>}

PseudoseedInit ==
    /\ now = 0
    /\ AllocatorOff
    /\ BucketOff
    /\ WindowOff
    /\ TiersOff
    /\ MatchOff
    /\ RouterOff
    /\ IngressOff
    /\ ServerOff
    /\ \E seed \in Seeds, key_seeds \in [RngKeys -> KeySeedValues] :
           /\ rng = [i \in Instances |->
                        IF i = "a"
                        THEN [New(i, seed) EXCEPT !.key_seeds = key_seeds]
                        ELSE NoRng]
           /\ rng_saved = [kind |-> "clone",
                           snapshot |-> [New("a", seed) EXCEPT
                                            !.key_seeds = key_seeds],
                           at |-> 0]
    /\ rng_log = [i \in Instances |-> <<>>]
    /\ rng_input \in [key : RngKeys]

PseudoseedCall ==
    /\ rng_log["a"] = <<>>
    /\ Pseudoseed("a", rng_input.key)

PseudoseedNext == PseudoseedCall

PseudoseedSpec == PseudoseedInit /\ [][PseudoseedNext]_vars

\* the counter of a key in the state before the call
CounterBefore(key) ==
    IF rng_saved.snapshot.key_seeds[key] = Absent THEN 0
    ELSE rng_saved.snapshot.key_seeds[key][1]

\* C39: pseudoseed(key) returns the hash of base_seed, key and the counter
\* of the key before the call (0 for a key never drawn), increases that
\* counter by one, wrapping at the top of the u64, and leaves the counters
\* of the other keys, base_seed and global_seed as they were
C39_PseudoseedPostIncrements ==
    rng_log["a"] # <<>> =>
        LET key == rng_input.key
            before == rng_saved.snapshot
        IN  /\ rng_log["a"][1].output =
                   Finish(17, <<before.base_seed>> \o Utf8[key] \o <<255>>
                                  \o <<CounterBefore(key)>>)
            /\ rng["a"].key_seeds[key] =
                   <<IF CounterBefore(key) = HashRange - 1 THEN 0
                     ELSE CounterBefore(key) + 1>>
            /\ \A other \in RngKeys \ {key} :
                   rng["a"].key_seeds[other] = before.key_seeds[other]
            /\ rng["a"].base_seed = before.base_seed
            /\ rng["a"].global_seed = before.global_seed

\* pseudoseed has run on a key whose counter was the largest u64, another
\* key having a counter of its own
C39_Witness ==
    /\ rng_log["a"] # <<>>
    /\ CounterBefore(rng_input.key) = HashRange - 1
    /\ rng["a"].key_seeds[rng_input.key] = <<0>>
    /\ \E other \in RngKeys \ {rng_input.key} :
           rng["a"].key_seeds[other] = <<2>>

(***************************************************************************)
(* One call of pseudoshuffle on a list of any length up to MaxList.        *)
(***************************************************************************)
MaxList == 4

ShuffleInputs ==
    [list : UNION {[1..n -> {"x", "y"}] : n \in 0..MaxList},
     seed : 0..(RandomSteps - 1)]

ShuffleInit ==
    /\ now = 0
    /\ AllocatorOff
    /\ BucketOff
    /\ WindowOff
    /\ TiersOff
    /\ MatchOff
    /\ RouterOff
    /\ IngressOff
    /\ ServerOff
    /\ rng = [i \in Instances |-> IF i = "a" THEN New(i, Numeric(0)) ELSE NoRng]
    /\ rng_log = [i \in Instances |-> <<>>]
    /\ rng_saved = <<>>
    /\ rng_input \in ShuffleInputs

PseudoshuffleCall ==
    /\ rng_log["a"] = <<>>
    /\ Pseudoshuffle("a", rng_input.list, rng_input.seed)

ShuffleNext == PseudoshuffleCall

ShuffleSpec == ShuffleInit /\ [][ShuffleNext]_vars

\* how often element e occurs in list
Occurrences(list, e) == Cardinality({j \in 1..Len(list) : list[j] = e})

\* the shuffle of the positions 1..n under a seed
Positions(n, seed) == PseudoshuffleOf([j \in 1..n |-> j], seed)

\* C40: pseudoshuffle leaves a list of the same length holding each element
\* as often as before, for every length from 0; the position each element
\* comes from depends on the seed and the length only
C40_ShuffleIsPermutation ==
    rng_log["a"] # <<>> =>
        LET list == rng_input.list
            shuffled == rng_log["a"][1].output
        IN  /\ Len(shuffled) = Len(list)
            /\ \A e \in {"x", "y"} :
                   Occurrences(shuffled, e) = Occurrences(list, e)
            /\ Range(Positions(Len(list), rng_input.seed)) = 1..Len(list)
            /\ \A j \in 1..Len(list) :
                   shuffled[j] = list[Positions(Len(list), rng_input.seed)[j]]

\* a list of three elements, not all equal, has been moved by the shuffle
C40_Witness ==
    /\ rng_log["a"] # <<>>
    /\ Len(rng_input.list) = 3
    /\ rng_log["a"][1].output # rng_input.list

====
